---- MODULE Spec2Model ----
(***************************************************************************)
(* A model of rustris: the menu cursor and layout (src/src/menus), the     *)
(* software compositor of the renderer crate (src/renderer/src/lib.rs),    *)
(* the text boxes (src/src/renderer), the timer and the world data         *)
(* (src/src/game).                                                         *)
(*                                                                         *)
(* Spec            a Menu from Menu::new through next / previous /         *)
(*                 calculate_item_positions                                *)
(* SpecMenuValues  Menu::render, Menu::current_option and render_main_menu *)
(*                 on the values of Menu                                   *)
(* SpecRenderer    the pixel buffer under draw_at_pixel_with_rgba,         *)
(*                 draw_at_pixel_with_rgb, draw_rectangle and set_color    *)
(* SpecImage       the pixel buffer under render_image                     *)
(* SpecLine        the pixel buffer under draw_line                        *)
(* SpecTextBox     a TextBox from TextBox::new through update_text,        *)
(*                 update_font_index and its render                        *)
(* SpecFonts       the TextBox of fonts.rs over the fonts a Renderer has   *)
(*                 loaded, through update_font_index                       *)
(* SpecTimer       a Timer under start, restart, is_finished and running   *)
(*                 while time passes                                       *)
(* SpecWorld       a WorldData from WorldData::new through update_world    *)
(*                 and render while time passes                            *)
(*                                                                         *)
(* Numbers are u32 / usize values.  The bounds keep every sum and product  *)
(* far below 2^32, so the only width effect that can occur is a u32        *)
(* subtraction going below zero.  A u32 whose top bit is set is written as *)
(* the negative integer with the same 32-bit pattern (2^32 - d is written  *)
(* -d), every other u32 as itself.                                         *)
(***************************************************************************)
EXTENDS Integers, Sequences, FiniteSets, TLC

VARIABLES
  pc,                  \* where the Menu value is in its life
  menu_items,          \* Menu.menu_items
  selected,            \* Menu.selected
  menu_item_positions, \* Menu.menu_item_positions
  overflow_checks,     \* the build: TRUE panics on integer overflow, FALSE wraps
  next_run,            \* consecutive next() calls made since the cursor was at 0
  pixel_buffer,        \* the frame: 4 bytes per pixel
  old_buffer,          \* the frame as it was when the last call began
  draws,               \* calls made on the frame
  loaded_fonts,        \* Renderer.loaded_fonts: how many fonts it holds
  call,                \* the last call and its arguments
  result,              \* what the last call returned
  rendered,            \* the draws the last render call made on the renderer, in order
  text_box,            \* a TextBox: its layout (settings and glyphs) and its dimensions
  now,                 \* Instant::now(), in milliseconds since the program started
  timers,              \* WorldData.timers
  current_state,       \* WorldData.current_state
  current_menu,        \* WorldData.current_menu
  last_move            \* the instant of the last cursor move update_menu made

vars == <<pc, menu_items, selected, menu_item_positions, overflow_checks,
          next_run, pixel_buffer, old_buffer, draws, loaded_fonts, call, result, rendered,
          text_box, now, timers, current_state, current_menu, last_move>>

menu_vars == <<pc, menu_items, selected, menu_item_positions, overflow_checks, next_run>>
renderer_vars == <<pixel_buffer, old_buffer, draws, loaded_fonts>>
world_vars == <<now, timers, current_state, current_menu, last_move>>

(***************************************************************************)
(* Bounds                                                                  *)
(***************************************************************************)
MaxItems == 3
BufferWidth == 2
BufferHeight == 2
MaxDraws == 1
MaxGlyphs == 2

(***************************************************************************)
(* Assets: Assets::get_image and WorldData::get_text_boxes                 *)
(***************************************************************************)
\* The image files are not part of the sources: the sizes are inputs.
ImageNames == {"menu_start_v2", "menu_options", "menu_exit"}

ImageDimensions(name) ==
  CASE name = "menu_start_v2" -> [width |-> 40, height |-> 12]
    [] name = "menu_options"  -> [width |-> 7,  height |-> 5]
    [] name = "menu_exit"     -> [width |-> 10, height |-> 10]

TextBoxNames == {"pause_game_control_text_box"}

\* TextBox::position(): the anchor the text box was created with.
TextBoxPosition(name) == [x |-> 0, y |-> 50]

\* TextBox::dimensions(): "Pause:" at 20 px.
TextBoxDimensions(name) == [width |-> 115, height |-> 30]

\* Assets::get_image(name).is_some()
IsImage(name) == name \in ImageNames

\* WorldData::get_text_boxes().get(name).is_some()
IsTextBox(name) == name \in TextBoxNames


\* MenuItem values a menu definition can list.
MenuItems ==
  { [item_name |-> "start",   asset_name |-> "menu_start_v2"],
    [item_name |-> "options", asset_name |-> "menu_options"],
    [item_name |-> "exit",    asset_name |-> "menu_exit"],
    [item_name |-> "pause",   asset_name |-> "pause_game_control_text_box"],
    [item_name |-> "options", asset_name |-> "options_asset"] }

\* MenuItemData::full_list() of the menu definitions: every list up to MaxItems.
ItemLists == UNION { [1..n -> MenuItems] : n \in 0..MaxItems }

\* MenuItemData::POSITION
Positions == { [x |-> 0, y |-> 0], [x |-> 10, y |-> 10], [x |-> 20, y |-> 3] }

\* MenuItemData::ITEM_OFFSET
ItemOffsets == {0, 10}

(***************************************************************************)
(* u32 arithmetic                                                          *)
(***************************************************************************)
\* a - b on u32 without overflow checks; a negative result -d is 2^32 - d.
WrappingSub(a, b) == a - b

\* a - b on u32 is below zero.
Underflows(a, b) == a < b

NoCall == [op |-> "none"]

\* No TextBox has been created.
NoTextBox == [settings |-> [x |-> 0, y |-> 0], glyphs |-> <<>>,
              dimensions |-> [width |-> 0, height |-> 0]]

\* Option<T>: None is the empty sequence, Some(value) the sequence of the value.
None == <<>>

Some(value) == <<value>>

\* No WorldData has been created.
NoWorldData ==
  /\ now = 0
  /\ timers = <<>>
  /\ current_state = "Menu"
  /\ current_menu = None
  /\ last_move = None

(***************************************************************************)
(* Menu (src/src/menus/menu_data.rs)                                       *)
(***************************************************************************)
\* calculate_item_positions that passes over an asset it cannot resolve instead
\* of returning the error.
RECURSIVE PlaceItemsSkipMissing(_, _, _, _, _, _, _)
PlaceItemsSkipMissing(items, i, starting_position, item_offset, offset, acc, checks) ==
  IF i > Len(items) THEN [positions |-> acc, result |-> "Ok"]
  ELSE
    LET asset_name == items[i].asset_name IN
    IF IsImage(asset_name) THEN
      LET image_width  == ImageDimensions(asset_name).width
          image_height == ImageDimensions(asset_name).height
          position == [x |-> WrappingSub(starting_position.x, image_width \div 2),
                       y |-> starting_position.y + offset]
      IN IF checks /\ Underflows(starting_position.x, image_width \div 2)
         THEN [positions |-> acc, result |-> "Panic"]
         ELSE PlaceItemsSkipMissing(items, i + 1, starting_position, item_offset,
                                    offset + image_height + item_offset,
                                    Append(acc, position), checks)
    ELSE IF IsTextBox(asset_name) THEN
      PlaceItemsSkipMissing(items, i + 1, starting_position, item_offset,
                            offset + TextBoxDimensions(asset_name).height + item_offset,
                            Append(acc, TextBoxPosition(asset_name)), checks)
    ELSE PlaceItemsSkipMissing(items, i + 1, starting_position, item_offset,
                               offset + item_offset, acc, checks)

\* calculate_item_positions that lays a text box out like an image, at the
\* anchor and the running offset, instead of where the text box was created.
RECURSIVE PlaceItemsTextBoxAtOffset(_, _, _, _, _, _, _)
PlaceItemsTextBoxAtOffset(items, i, starting_position, item_offset, offset, acc, checks) ==
  IF i > Len(items) THEN [positions |-> acc, result |-> "Ok"]
  ELSE
    LET asset_name == items[i].asset_name IN
    IF IsImage(asset_name) THEN
      LET image_width  == ImageDimensions(asset_name).width
          image_height == ImageDimensions(asset_name).height
          position == [x |-> WrappingSub(starting_position.x, image_width \div 2),
                       y |-> starting_position.y + offset]
      IN IF checks /\ Underflows(starting_position.x, image_width \div 2)
         THEN [positions |-> acc, result |-> "Panic"]
         ELSE PlaceItemsTextBoxAtOffset(items, i + 1, starting_position, item_offset,
                                        offset + image_height + item_offset,
                                        Append(acc, position), checks)
    ELSE IF IsTextBox(asset_name) THEN
      PlaceItemsTextBoxAtOffset(items, i + 1, starting_position, item_offset,
                                offset + TextBoxDimensions(asset_name).height + item_offset,
                                Append(acc, [x |-> starting_position.x,
                                             y |-> starting_position.y + offset]), checks)
    ELSE [positions |-> acc, result |-> "Err"]

\* The loop of calculate_item_positions from item i on: `offset` is the running
\* offset and `acc` the positions pushed so far.  The result is the list of
\* positions when the call ends and how it ends: "Ok", "Err" (an asset that is
\* neither an image nor a text box) or "Panic" (the subtraction overflows in a
\* build with overflow checks).
RECURSIVE PlaceItems(_, _, _, _, _, _, _)
PlaceItems(items, i, starting_position, item_offset, offset, acc, checks) ==
  IF i > Len(items) THEN [positions |-> acc, result |-> "Ok"]
  ELSE
    LET asset_name == items[i].asset_name IN
    IF IsImage(asset_name) THEN
      LET image_width  == ImageDimensions(asset_name).width
          image_height == ImageDimensions(asset_name).height
          position == [x |-> WrappingSub(starting_position.x, image_width \div 2),
                       y |-> starting_position.y + offset]
      IN IF checks /\ Underflows(starting_position.x, image_width \div 2)
         THEN [positions |-> acc, result |-> "Panic"]
         ELSE PlaceItems(items, i + 1, starting_position, item_offset,
                         offset + image_height + item_offset,
                         Append(acc, position), checks)
    ELSE IF IsTextBox(asset_name) THEN
      PlaceItems(items, i + 1, starting_position, item_offset,
                 offset + TextBoxDimensions(asset_name).height + item_offset,
                 Append(acc, TextBoxPosition(asset_name)), checks)
    ELSE [positions |-> acc, result |-> "Err"]

\* Menu::calculate_item_positions on a menu with the given items: the positions
\* are cleared, then pushed item by item.
LayOut(items, starting_position, item_offset, checks) ==
  PlaceItems(items, 1, starting_position, item_offset, 0, <<>>, checks)

\* Menu::next without the wrap at the last option.
NextSelectedNoWrap(option_count, cursor) ==
  IF option_count = 0 THEN cursor ELSE cursor + 1

\* Menu::next that stays at the last option instead of wrapping.
NextSelectedStaysAtLast(option_count, cursor) ==
  IF option_count = 0 \/ cursor = option_count - 1 THEN cursor ELSE cursor + 1

\* The cursor after Menu::next.
NextSelected(option_count, cursor) ==
  IF option_count = 0 THEN cursor
  ELSE IF cursor = option_count - 1 THEN 0
  ELSE cursor + 1

\* Menu::previous that stops at the first option instead of wrapping.
PreviousSelectedNoWrap(option_count, cursor) ==
  IF option_count = 0 \/ cursor = 0 THEN cursor ELSE cursor - 1

\* The cursor after Menu::previous.
PreviousSelected(option_count, cursor) ==
  IF option_count = 0 THEN cursor
  ELSE IF cursor = 0 THEN option_count - 1
  ELSE cursor - 1

\* Menu::new::<M>() up to the return of its call of calculate_item_positions:
\* M lists `items` and sets POSITION and ITEM_OFFSET.
MenuNew(items, position, item_offset) ==
  LET laid == LayOut(items, position, item_offset, overflow_checks) IN
  /\ pc = "start"
  /\ menu_items' = items
  /\ selected' = 0
  /\ menu_item_positions' = laid.positions
  /\ result' = laid.result
  /\ pc' = IF laid.result = "Panic" THEN "panicked" ELSE "in_new"
  /\ call' = [op |-> "calculate_item_positions", starting_position |-> position,
              item_offset |-> item_offset, old_selected |-> 0]
  /\ next_run' = 0
  /\ UNCHANGED <<overflow_checks, renderer_vars, rendered, text_box, world_vars>>

\* Menu::new: the `?` after calculate_item_positions and Ok(menu).  On Err the
\* menu under construction is dropped.
MenuNewReturn ==
  /\ pc = "in_new"
  /\ IF result = "Ok"
     THEN /\ pc' = "live"
          /\ UNCHANGED <<menu_items, selected, menu_item_positions>>
     ELSE /\ pc' = "failed"
          /\ menu_items' = <<>>
          /\ selected' = 0
          /\ menu_item_positions' = <<>>
  /\ call' = [op |-> "new"]
  /\ UNCHANGED <<result, next_run, overflow_checks, renderer_vars, rendered, text_box,
                 world_vars>>

\* What a call of next or previous keeps of the call before it: which of the
\* two it was and where the cursor was when it began.
CallBefore ==
  IF call.op \in {"next", "previous"}
  THEN [op |-> call.op, old_selected |-> call.old_selected]
  ELSE [op |-> "other", old_selected |-> 0]

\* Menu::next
MenuNext ==
  /\ pc = "live"
  /\ selected' = NextSelected(Len(menu_items), selected)
  /\ call' = [op |-> "next", old_selected |-> selected, before |-> CallBefore,
              old_menu_items |-> menu_items,
              old_menu_item_positions |-> menu_item_positions]
  /\ result' = "Ok"
  /\ next_run' = IF selected = 0 THEN 1 ELSE IF next_run > 0 THEN next_run + 1 ELSE 0
  /\ UNCHANGED <<pc, menu_items, menu_item_positions, overflow_checks, renderer_vars,
                 rendered, text_box, world_vars>>

\* Menu::previous
MenuPrevious ==
  /\ pc = "live"
  /\ selected' = PreviousSelected(Len(menu_items), selected)
  /\ call' = [op |-> "previous", old_selected |-> selected, before |-> CallBefore,
              old_menu_items |-> menu_items,
              old_menu_item_positions |-> menu_item_positions]
  /\ result' = "Ok"
  /\ next_run' = 0
  /\ UNCHANGED <<pc, menu_items, menu_item_positions, overflow_checks, renderer_vars,
                 rendered, text_box, world_vars>>

\* Menu::calculate_item_positions called on a menu that Menu::new returned.
CalculateItemPositions(starting_position, item_offset) ==
  LET laid == LayOut(menu_items, starting_position, item_offset, overflow_checks) IN
  /\ pc = "live"
  /\ menu_item_positions' = laid.positions
  /\ result' = laid.result
  /\ pc' = IF laid.result = "Panic" THEN "panicked" ELSE "live"
  /\ call' = [op |-> "calculate_item_positions", starting_position |-> starting_position,
              item_offset |-> item_offset, old_selected |-> selected]
  /\ next_run' = 0
  /\ UNCHANGED <<menu_items, selected, overflow_checks, renderer_vars, rendered, text_box,
                 world_vars>>

\* The frame before anything is drawn: Renderer::clear leaves [0, 0, 0, 255].
ClearedBuffer == [k \in 1..(BufferWidth * BufferHeight * 4) |-> IF k % 4 = 0 THEN 255 ELSE 0]

Init ==
  /\ pc = "start"
  /\ menu_items = <<>>
  /\ selected = 0
  /\ menu_item_positions = <<>>
  /\ overflow_checks \in BOOLEAN
  /\ next_run = 0
  /\ pixel_buffer = ClearedBuffer
  /\ old_buffer = ClearedBuffer
  /\ draws = 0
  /\ loaded_fonts = 0
  /\ call = NoCall
  /\ result = "None"
  /\ rendered = <<>>
  /\ text_box = NoTextBox
  /\ NoWorldData

Next ==
  \/ \E items \in ItemLists, position \in Positions, item_offset \in ItemOffsets :
       MenuNew(items, position, item_offset)
  \/ MenuNewReturn
  \/ MenuNext
  \/ MenuPrevious
  \/ \E position \in Positions, item_offset \in ItemOffsets :
       CalculateItemPositions(position, item_offset)

Spec == Init /\ [][Next]_vars

(***************************************************************************)
(* Menu::render, Menu::current_option and WorldData::render_main_menu on   *)
(* the values of Menu.  The sanity checks of these methods are about menus *)
(* whose positions or cursor do not fit the items, so the menus here are   *)
(* all the values of the struct, not only those Menu::new returns.  What a *)
(* draw does to the frame is left out: `rendered` lists the draws made.    *)
(***************************************************************************)
\* get_renderable_from_name(asset_name).is_some()
IsRenderable(asset_name) == IsImage(asset_name) \/ IsTextBox(asset_name)

\* Renderable::dimensions() of the asset
RenderableDimensions(asset_name) ==
  IF IsImage(asset_name) THEN ImageDimensions(asset_name) ELSE TextBoxDimensions(asset_name)

\* The try_for_each of Menu::render from the item `index` on (1-based here).
\* `failing` is the item whose Renderable::render returns an error, 0 if none
\* does; `acc` lists the render calls made so far.
RECURSIVE RenderItems(_, _, _, _, _)
RenderItems(items, positions, index, failing, acc) ==
  IF index > Len(items) THEN [result |-> "Ok", rendered |-> acc]
  ELSE
    LET asset_name == items[index].asset_name
        draw == [draw |-> "asset", asset_name |-> asset_name, index |-> index,
                 position |-> positions[index]]
    IN IF IsRenderable(asset_name)
       THEN IF index = failing THEN [result |-> "Err", rendered |-> Append(acc, draw)]
            ELSE RenderItems(items, positions, index + 1, failing, Append(acc, draw))
       ELSE [result |-> "Err", rendered |-> acc]

\* Menu::render without the second sanity check: the items that have a
\* position are rendered.
MenuRenderWhileMatched(items, positions, failing, acc) ==
  IF items = <<>> THEN [result |-> "Ok", rendered |-> acc]
  ELSE IF positions = <<>> THEN [result |-> "Err", rendered |-> acc]
  ELSE IF Len(items) > Len(positions)
       THEN RenderItems(SubSeq(items, 1, Len(positions)), positions, 1, failing, acc)
  ELSE RenderItems(items, positions, 1, failing, acc)

\* Menu::render
MenuRender(items, positions, failing, acc) ==
  IF items = <<>> THEN [result |-> "Ok", rendered |-> acc]
  ELSE IF positions = <<>> THEN [result |-> "Err", rendered |-> acc]
  ELSE IF Len(items) # Len(positions) THEN [result |-> "Err", rendered |-> acc]
  ELSE RenderItems(items, positions, 1, failing, acc)

\* Menu::current_option without the fall back to the first item.
CurrentOptionNoFallback(items, cursor) ==
  IF items = <<>> THEN <<>>
  ELSE IF cursor < Len(items) THEN <<items[cursor + 1]>>
  ELSE <<>>

\* Menu::current_option: <<>> is None, <<item>> is Some(item).
CurrentOption(items, cursor) ==
  IF items = <<>> THEN <<>>
  ELSE IF cursor < Len(items) THEN <<items[cursor + 1]>>
  ELSE <<items[1]>>

\* WorldData::draw_menu_selection_indicator on the current menu.  `arrow` is
\* what Renderer::draw_arrow returns.
DrawMenuSelectionIndicator(items, positions, cursor, checks, arrow, acc) ==
  IF cursor >= Len(items) THEN [result |-> "Err", rendered |-> acc]
  ELSE IF cursor >= Len(positions) THEN [result |-> "Panic", rendered |-> acc]
  ELSE IF ~IsRenderable(items[cursor + 1].asset_name) THEN [result |-> "Err", rendered |-> acc]
  ELSE
    LET position == positions[cursor + 1]
        asset_height == RenderableDimensions(items[cursor + 1].asset_name).height
        end_position == [x |-> WrappingSub(position.x, 10),
                         y |-> position.y + (asset_height \div 2)]
    IN IF checks /\ Underflows(position.x, 10) THEN [result |-> "Panic", rendered |-> acc]
       ELSE IF arrow = "Err" THEN [result |-> "Err", rendered |-> acc]
       ELSE [result |-> "Ok",
             rendered |-> Append(acc, [draw |-> "arrow", end_position |-> end_position])]

\* render_main_menu that returns Ok when there is no selected item to point at.
RenderMainMenuNoIndicator(items, positions, cursor, checks, background, failing, arrow) ==
  IF background = "Err" THEN [result |-> "Err", rendered |-> <<>>]
  ELSE
    LET menu == MenuRender(items, positions, failing, <<[draw |-> "background"]>>) IN
    IF menu.result # "Ok" THEN menu
    ELSE IF cursor >= Len(items) THEN [result |-> "Ok", rendered |-> menu.rendered]
    ELSE DrawMenuSelectionIndicator(items, positions, cursor, checks, arrow, menu.rendered)

\* WorldData::render_main_menu.  `background` is what draw_background_gradiant
\* returns.
RenderMainMenu(items, positions, cursor, checks, background, failing, arrow) ==
  IF background = "Err" THEN [result |-> "Err", rendered |-> <<>>]
  ELSE
    LET menu == MenuRender(items, positions, failing, <<[draw |-> "background"]>>) IN
    IF menu.result # "Ok" THEN menu
    ELSE DrawMenuSelectionIndicator(items, positions, cursor, checks, arrow, menu.rendered)

\* A call of Menu::render
MenuRenderCall(failing) ==
  LET done == MenuRender(menu_items, menu_item_positions, failing, <<>>) IN
  /\ pc = "live"
  /\ call = NoCall
  /\ call' = [op |-> "render"]
  /\ result' = done.result
  /\ rendered' = done.rendered
  /\ UNCHANGED <<menu_vars, renderer_vars, text_box, world_vars>>

\* A call of Menu::current_option
CurrentOptionCall ==
  /\ pc = "live"
  /\ call = NoCall
  /\ call' = [op |-> "current_option", returned |-> CurrentOption(menu_items, selected)]
  /\ result' = "Ok"
  /\ UNCHANGED <<menu_vars, renderer_vars, rendered, text_box, world_vars>>

\* A call of WorldData::render_main_menu with the menu as the current menu
RenderMainMenuCall(background, failing, arrow) ==
  LET done == RenderMainMenu(menu_items, menu_item_positions, selected, overflow_checks,
                             background, failing, arrow) IN
  /\ pc = "live"
  /\ call = NoCall
  /\ call' = [op |-> "render_main_menu"]
  /\ result' = done.result
  /\ rendered' = done.rendered
  /\ UNCHANGED <<menu_vars, renderer_vars, text_box, world_vars>>

\* The items of the menus: an image, a text box and an asset that does not exist.
ValueItems ==
  { [item_name |-> "start",   asset_name |-> "menu_start_v2"],
    [item_name |-> "pause",   asset_name |-> "pause_game_control_text_box"],
    [item_name |-> "options", asset_name |-> "options_asset"] }

\* Menu.menu_items
ValueItemLists == UNION { [1..n -> ValueItems] : n \in 0..MaxItems }

\* Menu.menu_item_positions: any number of positions, whatever the items are
ValuePositionLists == { [i \in 1..n |-> position] : n \in 0..MaxItems, position \in Positions }

InitMenuValues ==
  /\ pc = "live"
  /\ menu_items \in ValueItemLists
  /\ selected \in 0..MaxItems
  /\ menu_item_positions \in ValuePositionLists
  /\ overflow_checks \in BOOLEAN
  /\ next_run = 0
  /\ pixel_buffer = ClearedBuffer
  /\ old_buffer = ClearedBuffer
  /\ draws = 0
  /\ loaded_fonts = 0
  /\ call = NoCall
  /\ result = "None"
  /\ rendered = <<>>
  /\ text_box = NoTextBox
  /\ NoWorldData

NextMenuValues ==
  \/ \E failing \in 0..MaxItems : MenuRenderCall(failing)
  \/ CurrentOptionCall
  \/ \E background \in {"Ok", "Err"}, failing \in 0..MaxItems, arrow \in {"Ok", "Err"} :
       RenderMainMenuCall(background, failing, arrow)

SpecMenuValues == InitMenuValues /\ [][NextMenuValues]_vars

(***************************************************************************)
(* Renderer (src/renderer/src/lib.rs)                                      *)
(***************************************************************************)
\* Renderer::frame().len() / 4
PixelCount == BufferWidth * BufferHeight

\* buffer_dimensions / window_dimensions as the callers pass them
BufferDimensions == [width |-> BufferWidth, height |-> BufferHeight]

\* pixel_buffer[k] of the code: the sequences here start at 1.
ByteAt(buffer, k) == buffer[k + 1]

\* `as u8` on a u16
AsU8(n) == n % 256

\* 100 - (rgba[3] as u16 * 100) / 255
AlphaPercentage(alpha) == 100 - ((alpha * 100) \div 255)

\* (((alpha_percentage * top_color) / 100) + ((alpha_percentage * bottom_color) / 100)) as u8
BlendedColor(alpha_percentage, top_color, bottom_color) ==
  AsU8(((alpha_percentage * top_color) \div 100) + ((alpha_percentage * bottom_color) \div 100))

\* draw_at_pixel_with_rgba that copies the whole of rgba, the alpha byte too,
\* at full alpha.
DrawAtPixelWithRgbaCopyAlpha(buffer, pixel_index, rgba) ==
  LET adjusted_pixel_index == pixel_index * 4 IN
  IF rgba[4] = 0 THEN [buffer |-> buffer, result |-> "Ok"]
  ELSE IF Len(buffer) < adjusted_pixel_index + 4 THEN [buffer |-> buffer, result |-> "Err"]
  ELSE IF rgba[4] = 255 THEN
    [buffer |-> [buffer EXCEPT ![adjusted_pixel_index + 1] = rgba[1],
                               ![adjusted_pixel_index + 2] = rgba[2],
                               ![adjusted_pixel_index + 3] = rgba[3],
                               ![adjusted_pixel_index + 4] = rgba[4]],
     result |-> "Ok"]
  ELSE
    LET alpha_percentage == AlphaPercentage(rgba[4]) IN
    [buffer |-> [buffer EXCEPT
                   ![adjusted_pixel_index + 1] = BlendedColor(alpha_percentage, rgba[1], @),
                   ![adjusted_pixel_index + 2] = BlendedColor(alpha_percentage, rgba[2], @),
                   ![adjusted_pixel_index + 3] = BlendedColor(alpha_percentage, rgba[3], @)],
     result |-> "Ok"]

\* draw_at_pixel_with_rgba without the early return for alpha 0.
DrawAtPixelWithRgbaNoShortCircuit(buffer, pixel_index, rgba) ==
  LET adjusted_pixel_index == pixel_index * 4 IN
  IF Len(buffer) < adjusted_pixel_index + 4 THEN [buffer |-> buffer, result |-> "Err"]
  ELSE IF rgba[4] = 255 THEN
    [buffer |-> [buffer EXCEPT ![adjusted_pixel_index + 1] = rgba[1],
                               ![adjusted_pixel_index + 2] = rgba[2],
                               ![adjusted_pixel_index + 3] = rgba[3]],
     result |-> "Ok"]
  ELSE
    LET alpha_percentage == AlphaPercentage(rgba[4]) IN
    [buffer |-> [buffer EXCEPT
                   ![adjusted_pixel_index + 1] = BlendedColor(alpha_percentage, rgba[1], @),
                   ![adjusted_pixel_index + 2] = BlendedColor(alpha_percentage, rgba[2], @),
                   ![adjusted_pixel_index + 3] = BlendedColor(alpha_percentage, rgba[3], @)],
     result |-> "Ok"]

\* draw_at_pixel_with_rgba that brings an index past the end back to the last
\* pixel instead of returning the error.
DrawAtPixelWithRgbaClamped(buffer, pixel_index, rgba) ==
  LET last_pixel == (Len(buffer) \div 4) - 1
      adjusted_pixel_index == (IF pixel_index > last_pixel THEN last_pixel ELSE pixel_index) * 4
  IN
  IF rgba[4] = 0 THEN [buffer |-> buffer, result |-> "Ok"]
  ELSE IF rgba[4] = 255 THEN
    [buffer |-> [buffer EXCEPT ![adjusted_pixel_index + 1] = rgba[1],
                               ![adjusted_pixel_index + 2] = rgba[2],
                               ![adjusted_pixel_index + 3] = rgba[3]],
     result |-> "Ok"]
  ELSE
    LET alpha_percentage == AlphaPercentage(rgba[4]) IN
    [buffer |-> [buffer EXCEPT
                   ![adjusted_pixel_index + 1] = BlendedColor(alpha_percentage, rgba[1], @),
                   ![adjusted_pixel_index + 2] = BlendedColor(alpha_percentage, rgba[2], @),
                   ![adjusted_pixel_index + 3] = BlendedColor(alpha_percentage, rgba[3], @)],
     result |-> "Ok"]

\* Renderer::draw_at_pixel_with_rgba: the buffer it leaves and what it returns.
\* rgba[1..4] here are rgba[0..3] of the code.
DrawAtPixelWithRgba(buffer, pixel_index, rgba) ==
  LET adjusted_pixel_index == pixel_index * 4 IN
  IF rgba[4] = 0 THEN [buffer |-> buffer, result |-> "Ok"]
  ELSE IF Len(buffer) < adjusted_pixel_index + 4 THEN [buffer |-> buffer, result |-> "Err"]
  ELSE IF rgba[4] = 255 THEN
    [buffer |-> [buffer EXCEPT ![adjusted_pixel_index + 1] = rgba[1],
                               ![adjusted_pixel_index + 2] = rgba[2],
                               ![adjusted_pixel_index + 3] = rgba[3]],
     result |-> "Ok"]
  ELSE
    LET alpha_percentage == AlphaPercentage(rgba[4]) IN
    [buffer |-> [buffer EXCEPT
                   ![adjusted_pixel_index + 1] = BlendedColor(alpha_percentage, rgba[1], @),
                   ![adjusted_pixel_index + 2] = BlendedColor(alpha_percentage, rgba[2], @),
                   ![adjusted_pixel_index + 3] = BlendedColor(alpha_percentage, rgba[3], @)],
     result |-> "Ok"]

\* draw_at_pixel_with_rgb that writes an opaque alpha byte along with the colour.
DrawAtPixelWithRgbOpaque(buffer, pixel_index, rgb) ==
  LET adjusted_pixel_index == pixel_index * 4 IN
  IF Len(buffer) < adjusted_pixel_index + 4 THEN [buffer |-> buffer, result |-> "Err"]
  ELSE [buffer |-> [buffer EXCEPT ![adjusted_pixel_index + 1] = rgb[1],
                                  ![adjusted_pixel_index + 2] = rgb[2],
                                  ![adjusted_pixel_index + 3] = rgb[3],
                                  ![adjusted_pixel_index + 4] = 255],
        result |-> "Ok"]

\* Renderer::draw_at_pixel_with_rgb: rgb[1..3] here are rgb[0..2] of the code.
DrawAtPixelWithRgb(buffer, pixel_index, rgb) ==
  LET adjusted_pixel_index == pixel_index * 4 IN
  IF Len(buffer) < adjusted_pixel_index + 4 THEN [buffer |-> buffer, result |-> "Err"]
  ELSE [buffer |-> [buffer EXCEPT ![adjusted_pixel_index + 1] = rgb[1],
                                  ![adjusted_pixel_index + 2] = rgb[2],
                                  ![adjusted_pixel_index + 3] = rgb[3]],
        result |-> "Ok"]

\* top_left + x + (y * buffer_dimensions.width) for the cell `index` of a rectangle
WindowIndex(position, dimensions, buffer_dimensions, index) ==
  (position.x + (position.y * buffer_dimensions.width))
    + (index % dimensions.width)
    + ((index \div dimensions.width) * buffer_dimensions.width)

\* The loop of draw_rectangle from the cell `index` on; the `?` ends it at the
\* first cell draw_at_pixel_with_rgba refuses.
RECURSIVE DrawCells(_, _, _, _, _, _)
DrawCells(buffer, index, position, dimensions, color, buffer_dimensions) ==
  IF index >= dimensions.width * dimensions.height THEN [buffer |-> buffer, result |-> "Ok"]
  ELSE
    LET drawn == DrawAtPixelWithRgba(
                   buffer, WindowIndex(position, dimensions, buffer_dimensions, index), color)
    IN IF drawn.result = "Err" THEN [buffer |-> buffer, result |-> "Err"]
       ELSE DrawCells(drawn.buffer, index + 1, position, dimensions, color, buffer_dimensions)

\* draw_rectangle that gives the frame back as it was when a cell is refused.
DrawRectangleAllOrNothing(buffer, position, dimensions, color, buffer_dimensions) ==
  LET drawn == DrawCells(buffer, 0, position, dimensions, color, buffer_dimensions)
  IN IF drawn.result = "Err" THEN [buffer |-> buffer, result |-> "Err"] ELSE drawn

\* Renderer::draw_rectangle
DrawRectangle(buffer, position, dimensions, color, buffer_dimensions) ==
  DrawCells(buffer, 0, position, dimensions, color, buffer_dimensions)

\* The loop of render_image from the pixel `index` of the image on: the pixel
\* goes to top_left + x + (y * stride); the `?` ends the loop at the first
\* pixel draw_at_pixel_with_rgba refuses.  The zip ends it with the shorter of
\* 0..(width * height) and the 4-byte chunks of the image.
RECURSIVE BlitPixels(_, _, _, _, _)
BlitPixels(buffer, index, top_left, image, stride) ==
  IF index >= image.width * image.height \/ index >= Len(image.pixels)
  THEN [buffer |-> buffer, result |-> "Ok"]
  ELSE
    LET x == index % image.width
        y == index \div image.width
        buffer_index == top_left + x + (y * stride)
        drawn == DrawAtPixelWithRgba(buffer, buffer_index, image.pixels[index + 1])
    IN IF drawn.result = "Err" THEN [buffer |-> buffer, result |-> "Err"]
       ELSE BlitPixels(drawn.buffer, index + 1, top_left, image, stride)

\* render_image that steps from one row of the image to the next by the width
\* of the image instead of the width of the window.
RenderImageImageStride(buffer, offset, image, window_dimensions) ==
  IF ~image.rgba8 THEN [buffer |-> buffer, result |-> "Err"]
  ELSE BlitPixels(buffer, 0, offset.x + (offset.y * window_dimensions.width), image,
                  image.width)

\* Renderer::render_image (and Renderable::render of DynamicImage)
RenderImage(buffer, offset, image, window_dimensions) ==
  IF ~image.rgba8 THEN [buffer |-> buffer, result |-> "Err"]
  ELSE BlitPixels(buffer, 0, offset.x + (offset.y * window_dimensions.width), image,
                  window_dimensions.width)

\* Frames a call can find: the grey and the white of the tests, and one whose
\* pixels differ from each other and are not opaque.
InitialBuffers ==
  { [k \in 1..(PixelCount * 4) |-> IF k % 4 = 0 THEN 255 ELSE 119],
    [k \in 1..(PixelCount * 4) |-> 255],
    [k \in 1..(PixelCount * 4) |->
       IF k % 4 = 0 THEN 128 ELSE (40 * (k % 4)) + (3 * ((k - 1) \div 4))] }

\* rgba[3]
Alphas == {0, 1, 127, 254, 255}

\* rgba[0..3]
Rgbs == { <<255, 255, 255>>, <<119, 18, 200>> }

Rgbas == { rgb \o <<alpha>> : rgb \in Rgbs, alpha \in Alphas }

\* The colours draw_rectangle is called with.
RectangleColors == { <<119, 18, 200, 255>>, <<255, 255, 255, 127>> }

\* pixel_index: every pixel of the frame and the first past its end
PixelIndices == 0..PixelCount

\* position
RectanglePositions == [x : 0..(BufferWidth - 1), y : 0..(BufferHeight - 1)]

\* dimensions
RectangleDimensions == [width : 0..BufferWidth, height : 0..BufferHeight]

\* A call of Renderer::draw_at_pixel_with_rgba on the frame.
DrawAtPixelWithRgbaCall(pixel_index, rgba) ==
  LET drawn == DrawAtPixelWithRgba(pixel_buffer, pixel_index, rgba) IN
  /\ draws < MaxDraws
  /\ draws' = draws + 1
  /\ old_buffer' = pixel_buffer
  /\ pixel_buffer' = drawn.buffer
  /\ result' = drawn.result
  /\ call' = [op |-> "draw_at_pixel_with_rgba", pixel_index |-> pixel_index, rgba |-> rgba]
  /\ UNCHANGED <<menu_vars, loaded_fonts, rendered, text_box, world_vars>>

\* A call of Renderer::draw_rectangle on the frame.
DrawRectangleCall(position, dimensions, color) ==
  LET drawn == DrawRectangle(pixel_buffer, position, dimensions, color, BufferDimensions) IN
  /\ draws < MaxDraws
  /\ draws' = draws + 1
  /\ old_buffer' = pixel_buffer
  /\ pixel_buffer' = drawn.buffer
  /\ result' = drawn.result
  /\ call' = [op |-> "draw_rectangle", position |-> position, dimensions |-> dimensions,
              color |-> color]
  /\ UNCHANGED <<menu_vars, loaded_fonts, rendered, text_box, world_vars>>

\* A call of Renderer::draw_at_pixel_with_rgb on the frame.
DrawAtPixelWithRgbCall(pixel_index, rgb) ==
  LET drawn == DrawAtPixelWithRgb(pixel_buffer, pixel_index, rgb) IN
  /\ draws < MaxDraws
  /\ draws' = draws + 1
  /\ old_buffer' = pixel_buffer
  /\ pixel_buffer' = drawn.buffer
  /\ result' = drawn.result
  /\ call' = [op |-> "draw_at_pixel_with_rgb", pixel_index |-> pixel_index, rgb |-> rgb]
  /\ UNCHANGED <<menu_vars, loaded_fonts, rendered, text_box, world_vars>>

\* Renderer::set_color: byte n of every pixel is rgb[2 - n] for n = 0, 1, 2 and
\* 255 for n = 3 (sequences here are 1-based).
SetColor(buffer, rgb) ==
  [k \in 1..Len(buffer) |->
     LET iteration == k - 1 IN
     IF iteration % 4 = 3 THEN 255 ELSE rgb[(2 - (iteration % 4)) + 1]]

\* A call of Renderer::set_color on the frame.
SetColorCall(rgb) ==
  /\ draws < MaxDraws
  /\ draws' = draws + 1
  /\ old_buffer' = pixel_buffer
  /\ pixel_buffer' = SetColor(pixel_buffer, rgb)
  /\ result' = "Ok"
  /\ call' = [op |-> "set_color", rgb |-> rgb]
  /\ UNCHANGED <<menu_vars, loaded_fonts, rendered, text_box, world_vars>>

InitRenderer ==
  /\ pc = "start"
  /\ menu_items = <<>>
  /\ selected = 0
  /\ menu_item_positions = <<>>
  /\ overflow_checks = FALSE
  /\ next_run = 0
  /\ pixel_buffer \in InitialBuffers
  /\ old_buffer = pixel_buffer
  /\ draws = 0
  /\ loaded_fonts = 0
  /\ call = NoCall
  /\ result = "None"
  /\ rendered = <<>>
  /\ text_box = NoTextBox
  /\ NoWorldData

NextRenderer ==
  \/ \E pixel_index \in PixelIndices, rgba \in Rgbas :
       DrawAtPixelWithRgbaCall(pixel_index, rgba)
  \/ \E position \in RectanglePositions, dimensions \in RectangleDimensions,
        color \in RectangleColors :
       DrawRectangleCall(position, dimensions, color)
  \/ \E pixel_index \in PixelIndices, rgb \in Rgbs :
       DrawAtPixelWithRgbCall(pixel_index, rgb)
  \/ \E rgb \in Rgbs : SetColorCall(rgb)

SpecRenderer == InitRenderer /\ [][NextRenderer]_vars

(***************************************************************************)
(* Renderer::render_image                                                  *)
(***************************************************************************)
\* The colours of the pixels of the images: opaque, transparent and blended.
Palette ==
  << <<119, 18, 200, 255>>, <<255, 255, 255, 0>>, <<10, 20, 30, 255>>, <<255, 255, 255, 127>> >>

\* A DynamicImage: as_rgba8() is Some(pixels) when rgba8, None otherwise.
ImageOf(width, height, shift, rgba8) ==
  [width |-> width, height |-> height, rgba8 |-> rgba8,
   pixels |-> [k \in 1..(width * height) |-> Palette[((k - 1 + shift) % 4) + 1]]]

\* The images render_image is called with: narrower and wider than the frame.
Images ==
  { ImageOf(w, h, shift, TRUE) : w \in 1..3, h \in 1..2, shift \in 0..2 }
    \cup { ImageOf(2, 1, 0, FALSE) }

\* A call of Renderer::render_image on the frame.
RenderImageCall(offset, image) ==
  LET drawn == RenderImage(pixel_buffer, offset, image, BufferDimensions) IN
  /\ draws < MaxDraws
  /\ draws' = draws + 1
  /\ old_buffer' = pixel_buffer
  /\ pixel_buffer' = drawn.buffer
  /\ result' = drawn.result
  /\ call' = [op |-> "render_image", offset |-> offset, image |-> image]
  /\ UNCHANGED <<menu_vars, loaded_fonts, rendered, text_box, world_vars>>

NextImage == \E offset \in RectanglePositions, image \in Images : RenderImageCall(offset, image)

SpecImage == InitRenderer /\ [][NextImage]_vars

(***************************************************************************)
(* draw_line: its code is not among the sources; it is modelled from       *)
(* section 4.1 of the specification.                                       *)
(***************************************************************************)
Abs(n) == IF n < 0 THEN -n ELSE n

Sign(n) == IF n < 0 THEN -1 ELSE IF n > 0 THEN 1 ELSE 0

\* The integer Bresenham walk from the cell (x, y) to point_b with the error
\* term `err`: each visited cell is written through draw_at_pixel_with_rgba
\* at the linear index y * width + x, and the first refused write ends it.
RECURSIVE LineCells(_, _, _, _, _, _, _)
LineCells(buffer, x, y, err, point_a, point_b, context) ==
  LET dx == Abs(point_b.x - point_a.x)
      dy == -Abs(point_b.y - point_a.y)
      drawn == DrawAtPixelWithRgba(buffer, (y * context.width) + x, context.color)
      step_x == 2 * err >= dy
      step_y == 2 * err <= dx
  IN IF drawn.result = "Err" THEN [buffer |-> buffer, result |-> "Err"]
     ELSE IF x = point_b.x /\ y = point_b.y THEN [buffer |-> drawn.buffer, result |-> "Ok"]
     ELSE LineCells(drawn.buffer,
                    IF step_x THEN x + Sign(point_b.x - point_a.x) ELSE x,
                    IF step_y THEN y + Sign(point_b.y - point_a.y) ELSE y,
                    err + (IF step_x THEN dy ELSE 0) + (IF step_y THEN dx ELSE 0),
                    point_a, point_b, context)

\* draw_line that rasterizes whatever the coordinates are.
DrawLineAnyCoordinate(buffer, point_a, point_b, color, buffer_dimensions) ==
  LineCells(buffer, point_a.x, point_a.y,
            Abs(point_b.x - point_a.x) - Abs(point_b.y - point_a.y),
            point_a, point_b, [width |-> buffer_dimensions.width, color |-> color])

\* draw_line: InvalidGeometry when a coordinate of either point is not
\* positive, before anything is written; the line otherwise.
DrawLine(buffer, point_a, point_b, color, buffer_dimensions) ==
  IF point_a.x = 0 \/ point_a.y = 0 \/ point_b.x = 0 \/ point_b.y = 0
  THEN [buffer |-> buffer, result |-> "Err"]
  ELSE LineCells(buffer, point_a.x, point_a.y,
                 Abs(point_b.x - point_a.x) - Abs(point_b.y - point_a.y),
                 point_a, point_b, [width |-> buffer_dimensions.width, color |-> color])

\* A call of draw_line on the frame.
DrawLineCall(point_a, point_b, color) ==
  LET drawn == DrawLine(pixel_buffer, point_a, point_b, color, BufferDimensions) IN
  /\ draws < MaxDraws
  /\ draws' = draws + 1
  /\ old_buffer' = pixel_buffer
  /\ pixel_buffer' = drawn.buffer
  /\ result' = drawn.result
  /\ call' = [op |-> "draw_line", point_a |-> point_a, point_b |-> point_b, color |-> color]
  /\ UNCHANGED <<menu_vars, loaded_fonts, rendered, text_box, world_vars>>

\* point_a, point_b: the origin row and column, the cells of the frame and the
\* column past its right edge
LinePoints == [x : 0..BufferWidth, y : 0..(BufferHeight - 1)]

NextLine ==
  \E point_a \in LinePoints, point_b \in LinePoints, color \in RectangleColors :
    DrawLineCall(point_a, point_b, color)

SpecLine == InitRenderer /\ [][NextLine]_vars

(***************************************************************************)
(* TextBox (src/src/renderer/text_boxes.rs)                                *)
(***************************************************************************)
\* Assets::get_font_list().len()
FontCount == 1

\* The size the text boxes are created with.
FontSize == 20

\* The characters of the texts; "e-acute" is not ASCII.
Characters == {"a", "b", "e-acute"}

\* char::is_ascii
IsAscii(character) == character # "e-acute"

\* What the font gives for a character: the size of its bitmap, its lowest
\* row against the baseline, its advance and Font::rasterize's coverage of
\* each cell, row by row.  The font file is not part of the sources.
GlyphMetrics(character) ==
  CASE character = "a" ->
         [width |-> 1, height |-> 1, ymin |-> 0, advance |-> 1, bitmap |-> <<255>>]
    [] character = "b" ->
         [width |-> 2, height |-> 2, ymin |-> 0, advance |-> 2, bitmap |-> <<0, 2, 3, 128>>]
    [] character = "e-acute" ->
         [width |-> 1, height |-> 1, ymin |-> 0, advance |-> 1, bitmap |-> <<255>>]

\* The texts a text box is given.
Texts == UNION { [1..n -> Characters] : n \in 0..MaxGlyphs }

\* The positions a text box is given.
TextPositions == [x : {0, 2}, y : {0, 1}]

\* The sum of the advances of the characters before the i-th.
RECURSIVE AdvanceBefore(_, _)
AdvanceBefore(text, i) ==
  IF i <= 1 THEN 0 ELSE AdvanceBefore(text, i - 1) + GlyphMetrics(text[i - 1]).advance

\* Layout::reset(settings) and Layout::append(fonts, style): the glyphs of the
\* text, one after the other on a line that starts at settings.x.
LayoutGlyphs(settings, text, font_index) ==
  [i \in 1..Len(text) |->
     [parent |-> text[i],
      x |-> settings.x + AdvanceBefore(text, i),
      width |-> GlyphMetrics(text[i]).width,
      height |-> GlyphMetrics(text[i]).height,
      font_index |-> font_index,
      px |-> FontSize]]

\* The for_each of calculate_dimensions from the glyph k on: the largest height.
RECURSIVE LargestHeight(_, _, _)
LargestHeight(glyphs, k, largest_height) ==
  IF k > Len(glyphs) THEN largest_height
  ELSE LargestHeight(glyphs, k + 1,
                     IF glyphs[k].height > largest_height THEN glyphs[k].height
                     ELSE largest_height)

\* TextBox::calculate_dimensions: the dimensions, or the panic of the
\* subtraction in a build with overflow checks.
CalculateDimensions(glyphs, position, checks) ==
  IF Len(glyphs) = 0 THEN [dimensions |-> [width |-> 0, height |-> 0], result |-> "Ok"]
  ELSE
    LET farthest_right == glyphs[Len(glyphs)].x + glyphs[Len(glyphs)].width
        largest_height == LargestHeight(glyphs, 1, 0)
    IN IF checks /\ Underflows(farthest_right, position.x)
       THEN [dimensions |-> [width |-> 0, height |-> 0], result |-> "Panic"]
       ELSE [dimensions |-> [width |-> WrappingSub(farthest_right, position.x),
                             height |-> largest_height],
             result |-> "Ok"]

\* TextBox::font_index: <<>> is None.
FontIndex(box) == IF box.glyphs = <<>> THEN <<>> ELSE <<box.glyphs[1].font_index>>

\* TextBox::new
TextBoxNew(font_index, text, position) ==
  /\ pc = "start"
  /\ IF FontCount < font_index + 1
     THEN /\ pc' = "failed"
          /\ result' = "Err"
          /\ UNCHANGED text_box
     ELSE LET glyphs == LayoutGlyphs(position, text, font_index)
              measured == CalculateDimensions(glyphs, position, overflow_checks)
          IN /\ pc' = IF measured.result = "Panic" THEN "panicked" ELSE "text_box"
             /\ result' = measured.result
             /\ text_box' = [settings |-> position, glyphs |-> glyphs,
                             dimensions |-> measured.dimensions]
  /\ call' = [op |-> "text_box_new", position |-> position, text |-> text]
  /\ UNCHANGED <<menu_items, selected, menu_item_positions, overflow_checks, next_run,
                 renderer_vars, rendered, world_vars>>

\* TextBox::text
Text(box) == [i \in 1..Len(box.glyphs) |-> box.glyphs[i].parent]

\* TextBox::px
Px(box) == IF box.glyphs = <<>> THEN None ELSE Some(box.glyphs[1].px)

\* Layout::reset as update_text uses it: the glyphs are dropped, and the
\* font_index() read after it is None.
ResetLayout(box, settings) == [box EXCEPT !.settings = settings, !.glyphs = <<>>]

\* The body of TextBox::update_text on a text box.  The layout moves only when
\* both coordinates of the position differ from the stored ones; font_index()
\* is read after the reset and unwrap_or(0) makes the font 0.
TextBoxUpdateText(box, text, position, checks) ==
  LET settings == IF box.settings.x # position.x /\ box.settings.y # position.y
                  THEN position ELSE box.settings
      reset == ResetLayout(box, settings)
      font_index == IF FontIndex(reset) = None THEN 0 ELSE FontIndex(reset)[1]
      glyphs == LayoutGlyphs(settings, text, font_index)
      measured == CalculateDimensions(glyphs, position, checks)
  IN [text_box |-> [settings |-> settings, glyphs |-> glyphs,
                    dimensions |-> IF measured.result = "Panic" THEN box.dimensions
                                   ELSE measured.dimensions],
      result |-> measured.result]

\* A call of TextBox::update_text
UpdateText(text, position) ==
  LET updated == TextBoxUpdateText(text_box, text, position, overflow_checks)
  IN /\ pc = "text_box"
     /\ draws = 0
     /\ pc' = IF updated.result = "Panic" THEN "panicked" ELSE "text_box"
     /\ result' = updated.result
     /\ text_box' = updated.text_box
     /\ call' = [op |-> "update_text", position |-> position, text |-> text]
     /\ UNCHANGED <<menu_items, selected, menu_item_positions, overflow_checks, next_run,
                    renderer_vars, rendered, world_vars>>

\* The body of TextBox::update_font_index on a text box, with font_count fonts
\* in Assets::get_font_list(): new_font_index is compared with the number of
\* fonts and not used again.
TextBoxUpdateFontIndex(box, new_font_index, font_count, checks) ==
  IF font_count < new_font_index + 1 THEN [text_box |-> box, result |-> "Err"]
  ELSE IF Px(box) = None THEN [text_box |-> box, result |-> "Err"]
  ELSE TextBoxUpdateText(box, Text(box), box.settings, checks)

\* A call of TextBox::update_font_index
UpdateFontIndex(new_font_index) ==
  LET updated == TextBoxUpdateFontIndex(text_box, new_font_index, FontCount, overflow_checks)
  IN /\ pc = "text_box"
     /\ draws = 0
     /\ pc' = IF updated.result = "Panic" THEN "panicked" ELSE "text_box"
     /\ result' = updated.result
     /\ text_box' = updated.text_box
     /\ call' = [op |-> "update_font_index", new_font_index |-> new_font_index,
                 font_count |-> FontCount, old_text_box |-> text_box]
     /\ UNCHANGED <<menu_items, selected, menu_item_positions, overflow_checks, next_run,
                    renderer_vars, rendered, world_vars>>

\* The colour of a cell: each channel of the colour at shade_percentage, and
\* the alpha of the colour.
ShadedColor(color, shade_percentage) ==
  LET shaded(channel) ==
        LET scaled == (channel * shade_percentage) \div 100
        IN AsU8(IF scaled > 255 THEN 255 ELSE scaled)
  IN <<shaded(color[1]), shaded(color[2]), shaded(color[3]), color[4]>>

\* The loop over the cells of a glyph from the cell `index` on.
RECURSIVE RenderGlyphCells(_, _, _, _, _, _)
RenderGlyphCells(buffer, index, glyph, top_left_placement, color, buffer_dimensions) ==
  IF index >= glyph.width * glyph.height THEN [buffer |-> buffer, result |-> "Ok"]
  ELSE
    LET position == top_left_placement + (index % glyph.width)
                      + ((index \div glyph.width) * buffer_dimensions.width)
        shade_percentage == (GlyphMetrics(glyph.parent).bitmap[index + 1] * 100) \div 255
    IN IF shade_percentage = 0
       THEN RenderGlyphCells(buffer, index + 1, glyph, top_left_placement, color,
                             buffer_dimensions)
       ELSE LET drawn == DrawAtPixelWithRgba(buffer, position,
                                             ShadedColor(color, shade_percentage))
            IN IF drawn.result = "Err" THEN [buffer |-> buffer, result |-> "Err"]
               ELSE RenderGlyphCells(drawn.buffer, index + 1, glyph, top_left_placement,
                                     color, buffer_dimensions)

\* glyph.x + (((text_box_y + text_box_height) - (ymin + height)).max(0) * buffer width)
TopLeftPlacement(box, glyph, buffer_dimensions) ==
  LET above == (box.settings.y + box.dimensions.height)
                 - (GlyphMetrics(glyph.parent).ymin + GlyphMetrics(glyph.parent).height)
  IN glyph.x + ((IF above < 0 THEN 0 ELSE above) * buffer_dimensions.width)

\* The try_for_each over the glyphs, which passes over a glyph that is not
\* ASCII instead of returning the error.
RECURSIVE RenderGlyphsSkipNonAscii(_, _, _, _, _)
RenderGlyphsSkipNonAscii(buffer, k, box, color, buffer_dimensions) ==
  IF k > Len(box.glyphs) THEN [buffer |-> buffer, result |-> "Ok"]
  ELSE IF ~IsAscii(box.glyphs[k].parent)
       THEN RenderGlyphsSkipNonAscii(buffer, k + 1, box, color, buffer_dimensions)
  ELSE
    LET drawn == RenderGlyphCells(buffer, 0, box.glyphs[k],
                                  TopLeftPlacement(box, box.glyphs[k], buffer_dimensions),
                                  color, buffer_dimensions)
    IN IF drawn.result = "Err" THEN drawn
       ELSE RenderGlyphsSkipNonAscii(drawn.buffer, k + 1, box, color, buffer_dimensions)

\* The try_for_each of render over the glyphs, from the glyph k on.
RECURSIVE RenderGlyphs(_, _, _, _, _)
RenderGlyphs(buffer, k, box, color, buffer_dimensions) ==
  IF k > Len(box.glyphs) THEN [buffer |-> buffer, result |-> "Ok"]
  ELSE IF ~IsAscii(box.glyphs[k].parent) THEN [buffer |-> buffer, result |-> "Err"]
  ELSE
    LET drawn == RenderGlyphCells(buffer, 0, box.glyphs[k],
                                  TopLeftPlacement(box, box.glyphs[k], buffer_dimensions),
                                  color, buffer_dimensions)
    IN IF drawn.result = "Err" THEN drawn
       ELSE RenderGlyphs(drawn.buffer, k + 1, box, color, buffer_dimensions)

\* Renderable::render of TextBox
TextBoxRender(buffer, box, color, buffer_dimensions) ==
  IF FontIndex(box) = <<>> THEN [buffer |-> buffer, result |-> "Ok"]
  ELSE IF FontIndex(box)[1] >= FontCount THEN [buffer |-> buffer, result |-> "Err"]
  ELSE RenderGlyphs(buffer, 1, box, color, buffer_dimensions)

\* A call of Renderable::render on the text box.
TextBoxRenderCall(color) ==
  LET drawn == TextBoxRender(pixel_buffer, text_box, color, BufferDimensions) IN
  /\ pc = "text_box"
  /\ draws < MaxDraws
  /\ draws' = draws + 1
  /\ old_buffer' = pixel_buffer
  /\ pixel_buffer' = drawn.buffer
  /\ result' = drawn.result
  /\ call' = [op |-> "text_box_render", color |-> color]
  /\ UNCHANGED <<menu_vars, loaded_fonts, rendered, text_box, world_vars>>

InitTextBox ==
  /\ pc = "start"
  /\ menu_items = <<>>
  /\ selected = 0
  /\ menu_item_positions = <<>>
  /\ overflow_checks \in BOOLEAN
  /\ next_run = 0
  /\ pixel_buffer \in InitialBuffers
  /\ old_buffer = pixel_buffer
  /\ draws = 0
  /\ loaded_fonts = 0
  /\ call = NoCall
  /\ result = "None"
  /\ rendered = <<>>
  /\ text_box = NoTextBox
  /\ NoWorldData

NextTextBox ==
  \/ \E font_index \in 0..FontCount, text \in Texts, position \in TextPositions :
       TextBoxNew(font_index, text, position)
  \/ \E text \in Texts, position \in TextPositions : UpdateText(text, position)
  \/ \E new_font_index \in 0..FontCount : UpdateFontIndex(new_font_index)
  \/ \E color \in RectangleColors : TextBoxRenderCall(color)

SpecTextBox == InitTextBox /\ [][NextTextBox]_vars

(***************************************************************************)
(* TextBox of src/src/renderer/fonts.rs, whose fonts are the ones the      *)
(* Renderer of src/src/renderer/mod.rs has loaded.  This TextBox has a     *)
(* layout and no dimensions: the dimensions of text_box stay as they are.  *)
(***************************************************************************)
\* The fonts a renderer is given.
MaxFonts == 2

\* Renderer::load_font_from_bytes: `parsed` is whether Font::from_bytes accepts
\* the bytes.
LoadFontFromBytes(parsed) ==
  /\ pc \in {"start", "text_box"}
  /\ loaded_fonts < MaxFonts
  /\ loaded_fonts' = IF parsed THEN loaded_fonts + 1 ELSE loaded_fonts
  /\ result' = IF parsed THEN "Ok" ELSE "Err"
  /\ call' = [op |-> "load_font_from_bytes"]
  /\ UNCHANGED <<menu_vars, pixel_buffer, old_buffer, draws, rendered, text_box, world_vars>>

\* TextBox::new of fonts.rs.  Layout::append indexes the fonts with the font
\* index of the style and panics when there is no such font.
FontsTextBoxNew(font_index, text, position) ==
  /\ pc = "start"
  /\ IF loaded_fonts < font_index + 1
     THEN /\ pc' = "panicked"
          /\ result' = "Panic"
          /\ UNCHANGED text_box
     ELSE /\ pc' = "text_box"
          /\ result' = "Ok"
          /\ text_box' = [text_box EXCEPT !.settings = position,
                                          !.glyphs = LayoutGlyphs(position, text, font_index)]
  /\ call' = [op |-> "text_box_new", position |-> position, text |-> text]
  /\ UNCHANGED <<menu_items, selected, menu_item_positions, overflow_checks, next_run,
                 renderer_vars, rendered, world_vars>>

\* TextBox::position of fonts.rs: the x and y of the first glyph.  The glyph
\* hangs from the ascent of the line, which is the height of the tallest glyph
\* of the font.
FontsPosition(box) ==
  IF box.glyphs = <<>> THEN None
  ELSE LET metrics == GlyphMetrics(box.glyphs[1].parent) IN
       Some([x |-> box.glyphs[1].x,
             y |-> box.settings.y + (2 - (metrics.ymin + metrics.height))])

\* TextBox::update_text of fonts.rs on a text box: as in text_boxes.rs without
\* the dimensions.
FontsUpdateText(box, text, position) ==
  LET settings == IF box.settings.x # position.x /\ box.settings.y # position.y
                  THEN position ELSE box.settings
      reset == ResetLayout(box, settings)
      font_index == IF FontIndex(reset) = None THEN 0 ELSE FontIndex(reset)[1]
  IN [box EXCEPT !.settings = settings,
                 !.glyphs = LayoutGlyphs(settings, text, font_index)]

\* A call of TextBox::update_font_index of fonts.rs
FontsUpdateFontIndex(new_font_index) ==
  /\ pc = "text_box"
  /\ IF loaded_fonts < new_font_index + 1
     THEN /\ result' = "Err"
          /\ UNCHANGED text_box
     ELSE IF Px(text_box) = None \/ FontsPosition(text_box) = None
     THEN /\ result' = "Err"
          /\ UNCHANGED text_box
     ELSE /\ result' = "Ok"
          /\ text_box' = FontsUpdateText(text_box, Text(text_box), FontsPosition(text_box)[1])
  /\ call' = [op |-> "update_font_index", new_font_index |-> new_font_index,
              font_count |-> loaded_fonts, old_text_box |-> text_box]
  /\ UNCHANGED <<pc, menu_items, selected, menu_item_positions, overflow_checks, next_run,
                 renderer_vars, rendered, world_vars>>

NextFonts ==
  \/ \E parsed \in BOOLEAN : LoadFontFromBytes(parsed)
  \/ \E font_index \in 0..MaxFonts, text \in Texts, position \in TextPositions :
       FontsTextBoxNew(font_index, text, position)
  \/ \E new_font_index \in 0..MaxFonts : FontsUpdateFontIndex(new_font_index)

SpecFonts == InitTextBox /\ [][NextFonts]_vars

(***************************************************************************)
(* Timer (src/src/game/timer.rs)                                           *)
(*                                                                         *)
(* An Instant is the number of milliseconds since the program started and  *)
(* `now` is what Instant::now() returns.  The reads of the clock within    *)
(* one call return the same instant.                                       *)
(***************************************************************************)
\* The clock is read every 100 ms, MaxTicks times.
MaxTicks == 5

\* The name of the timer: the one update_menu uses.
TimerName == "menu_movement"

\* Timer::new
TimerNew(duration) == [timer |-> None, duration |-> duration]

\* Timer::start at the given instant; Timer::restart calls it.
TimerStart(timer, instant) == [timer EXCEPT !.timer = Some(instant)]

\* Timer::is_finished that reports the expiry and leaves the timer running.
TimerIsFinishedKeepsRunning(timer, instant) ==
  IF timer.timer = None THEN [returned |-> FALSE, timer |-> timer]
  ELSE [returned |-> (instant - timer.timer[1]) >= timer.duration, timer |-> timer]

\* Timer::is_finished at the given instant: what it returns and the timer
\* afterwards.
TimerIsFinished(timer, instant) ==
  IF timer.timer = None THEN [returned |-> FALSE, timer |-> timer]
  ELSE
    LET timer_finished == (instant - timer.timer[1]) >= timer.duration IN
    [returned |-> timer_finished,
     timer |-> IF timer_finished THEN [timer EXCEPT !.timer = None] ELSE timer]

\* Timer::running
TimerRunning(timer) == timer.timer # None

\* start() or restart() has been called on the timer.
Started == call.op # "none" /\ call.started

\* Time passes.
Elapse ==
  /\ now < 100 * MaxTicks
  /\ now' = now + 100
  /\ UNCHANGED <<menu_vars, renderer_vars, call, result, rendered, text_box, timers,
                 current_state, current_menu, last_move>>

\* A call of Timer::start
StartCall ==
  /\ timers' = [timers EXCEPT ![TimerName] = TimerStart(@, now)]
  /\ call' = [op |-> "start", old_timer |-> timers[TimerName], instant |-> now,
              returned |-> FALSE, started |-> TRUE]
  /\ UNCHANGED <<menu_vars, renderer_vars, result, rendered, text_box, now,
                 current_state, current_menu, last_move>>

\* A call of Timer::restart
RestartCall ==
  /\ timers' = [timers EXCEPT ![TimerName] = TimerStart(@, now)]
  /\ call' = [op |-> "restart", old_timer |-> timers[TimerName], instant |-> now,
              returned |-> FALSE, started |-> TRUE]
  /\ UNCHANGED <<menu_vars, renderer_vars, result, rendered, text_box, now,
                 current_state, current_menu, last_move>>

\* A call of Timer::is_finished
IsFinishedCall ==
  LET polled == TimerIsFinished(timers[TimerName], now) IN
  /\ timers' = [timers EXCEPT ![TimerName] = polled.timer]
  /\ call' = [op |-> "is_finished", old_timer |-> timers[TimerName], instant |-> now,
              returned |-> polled.returned, started |-> Started]
  /\ UNCHANGED <<menu_vars, renderer_vars, result, rendered, text_box, now,
                 current_state, current_menu, last_move>>

\* A call of Timer::running
RunningCall ==
  /\ call' = [op |-> "running", old_timer |-> timers[TimerName], instant |-> now,
              returned |-> TimerRunning(timers[TimerName]), started |-> Started]
  /\ UNCHANGED <<menu_vars, renderer_vars, result, rendered, text_box, now, timers,
                 current_state, current_menu, last_move>>

\* The durations a timer is created with, in milliseconds.
Durations == {0, 200, 300}

InitTimer ==
  /\ pc = "start"
  /\ menu_items = <<>>
  /\ selected = 0
  /\ menu_item_positions = <<>>
  /\ overflow_checks = FALSE
  /\ next_run = 0
  /\ pixel_buffer = ClearedBuffer
  /\ old_buffer = ClearedBuffer
  /\ draws = 0
  /\ loaded_fonts = 0
  /\ call = NoCall
  /\ result = "None"
  /\ rendered = <<>>
  /\ text_box = NoTextBox
  /\ now = 0
  /\ \E duration \in Durations : timers = [name \in {TimerName} |-> TimerNew(duration)]
  /\ current_state = "Menu"
  /\ current_menu = None
  /\ last_move = None

NextTimer ==
  \/ Elapse
  \/ StartCall
  \/ RestartCall
  \/ IsFinishedCall
  \/ RunningCall

SpecTimer == InitTimer /\ [][NextTimer]_vars

(***************************************************************************)
(* WorldData (src/src/game/world_data.rs).  The menu of the variables      *)
(* menu_items, selected and menu_item_positions is the main menu of the    *)
(* map `menus`; the cursors of the other menus of the map never move.      *)
(***************************************************************************)
\* MainMenu::MENU_NAME: stringify!(MainMenu)
MainMenuName == "MainMenu"

\* The keys of WorldData.menus, as load_menus fills it.
MenuNames == {MainMenuName, "GeneralSettingsMenu", "GameControlsMenu", "MenuControlsMenu"}

\* MenuItemData::full_list() of MainMenu: Start, Options, Exit.
MainMenuItems ==
  << [item_name |-> "start",   asset_name |-> "menu_start_v2"],
     [item_name |-> "options", asset_name |-> "menu_options"],
     [item_name |-> "exit",    asset_name |-> "menu_exit"] >>

\* MenuItemData::POSITION and ITEM_OFFSET of MainMenu: the menu is centred in
\* the window of 250 by 400.
MainMenuPosition == [x |-> 125, y |-> 100]

MainMenuItemOffset == 10

\* MainMenu::from_name
MainMenuFromName(item_name) ==
  CASE item_name = "start"   -> Some("Start")
    [] item_name = "options" -> Some("Options")
    [] item_name = "exit"    -> Some("Exit")
    [] OTHER -> None

\* MenuAction
MenuActions == {"Up", "Down", "Left", "Right", "Select", "Back", "Unknown"}

\* Option<PlayerAction>: None, a GameAction list or a MenuAction
PlayerActions == {"None", "GameAction"} \cup MenuActions

\* The fields of WorldData that update_world reads and writes.
World ==
  [current_state |-> current_state, current_menu |-> current_menu,
   selected |-> selected, timers |-> timers]

\* WorldData::current_menu and current_menu_mut return Ok.
CurrentMenuIsOk(world) ==
  world.current_menu # None /\ world.current_menu[1] \in MenuNames

\* WorldData::get_or_init_timer: the map with the timer of that name in it.
GetOrInitTimer(map, name, duration) ==
  IF name \in DOMAIN map THEN map
  ELSE [n \in (DOMAIN map) \cup {name} |-> IF n = name THEN TimerNew(duration) ELSE map[n]]

\* The Up | Down arm of update_menu that moves the cursor whatever the timer
\* says.
MoveCursorNoDebounce(world, items, player_action, instant) ==
  LET with_timer == GetOrInitTimer(world.timers, TimerName, 200)
      polled == TimerIsFinished(with_timer[TimerName], instant)
  IN [world EXCEPT
        !.timers = [with_timer EXCEPT ![TimerName] = TimerStart(polled.timer, instant)],
        !.selected = IF player_action = "Up" THEN PreviousSelected(Len(items), @)
                     ELSE NextSelected(Len(items), @)]

\* The Up | Down arm of update_menu in the main menu: the world afterwards.
MoveCursor(world, items, player_action, instant) ==
  LET with_timer == GetOrInitTimer(world.timers, TimerName, 200)
      polled == TimerIsFinished(with_timer[TimerName], instant)
  IN IF polled.returned \/ ~TimerRunning(polled.timer)
     THEN [world EXCEPT
             !.timers = [with_timer EXCEPT ![TimerName] = TimerStart(polled.timer, instant)],
             !.selected = IF player_action = "Up" THEN PreviousSelected(Len(items), @)
                          ELSE NextSelected(Len(items), @)]
     ELSE [world EXCEPT !.timers = [with_timer EXCEPT ![TimerName] = polled.timer]]

\* The Select arm of update_menu that takes Options for a request to close.
SelectOptionClosesOnOptions(world, items) ==
  LET current_option == CurrentOption(items, world.selected) IN
  IF current_option = None THEN [world |-> world, result |-> "Err", returned |-> FALSE]
  ELSE
    LET current_option_item == MainMenuFromName(current_option[1].item_name) IN
    IF current_option_item = None
    THEN [world |-> world, result |-> "Err", returned |-> FALSE]
    ELSE IF current_option_item = Some("Start")
    THEN [world |-> [world EXCEPT !.current_state = "Game"],
          result |-> "Ok", returned |-> FALSE]
    ELSE [world |-> world, result |-> "Ok", returned |-> TRUE]

\* The Select arm of update_menu in the main menu: the world afterwards and
\* what update_menu returns.
SelectOption(world, items) ==
  LET current_option == CurrentOption(items, world.selected) IN
  IF current_option = None THEN [world |-> world, result |-> "Err", returned |-> FALSE]
  ELSE
    LET current_option_item == MainMenuFromName(current_option[1].item_name) IN
    IF current_option_item = None
    THEN [world |-> world, result |-> "Err", returned |-> FALSE]
    ELSE IF current_option_item = Some("Start")
    THEN [world |-> [world EXCEPT !.current_state = "Game"],
          result |-> "Ok", returned |-> FALSE]
    ELSE IF current_option_item = Some("Options")
    THEN [world |-> [world EXCEPT !.current_menu = Some("options_menu")],
          result |-> "Ok", returned |-> FALSE]
    ELSE [world |-> world, result |-> "Ok", returned |-> TRUE]

\* WorldData::update_menu
UpdateMenu(world, items, player_action, instant) ==
  IF player_action \notin MenuActions
  THEN [world |-> world, result |-> "Ok", returned |-> FALSE]
  ELSE IF ~CurrentMenuIsOk(world)
  THEN [world |-> world, result |-> "Err", returned |-> FALSE]
  ELSE
    LET current_menu_name == world.current_menu[1] IN
    IF current_menu_name = MainMenuName
    THEN IF player_action \in {"Up", "Down"}
         THEN [world |-> MoveCursor(world, items, player_action, instant),
               result |-> "Ok", returned |-> FALSE]
         ELSE IF player_action = "Select" THEN SelectOption(world, items)
         ELSE [world |-> world, result |-> "Ok", returned |-> FALSE]
    ELSE IF current_menu_name \in {"options_menu", "pause_menu"}
    THEN [world |-> world, result |-> "Panic", returned |-> FALSE]
    ELSE [world |-> [world EXCEPT !.current_menu = Some(MainMenuName)],
          result |-> "Ok", returned |-> FALSE]

\* WorldData::update_world
UpdateWorld(world, items, player_action, instant) ==
  IF world.current_state = "Menu" THEN UpdateMenu(world, items, player_action, instant)
  ELSE [world |-> world, result |-> "Ok", returned |-> FALSE]

\* A call of WorldData::update_world
UpdateWorldCall(player_action) ==
  LET updated == UpdateWorld(World, menu_items, player_action, now) IN
  /\ pc = "live"
  /\ current_state' = updated.world.current_state
  /\ current_menu' = updated.world.current_menu
  /\ selected' = updated.world.selected
  /\ timers' = updated.world.timers
  /\ last_move' = IF updated.world.selected # selected THEN Some(now) ELSE last_move
  /\ result' = updated.result
  /\ pc' = IF updated.result = "Panic" THEN "panicked" ELSE "live"
  /\ call' = [op |-> "update_world", player_action |-> player_action, old_world |-> World,
              old_last_move |-> last_move, instant |-> now, returned |-> updated.returned]
  /\ UNCHANGED <<menu_items, menu_item_positions, overflow_checks, next_run, renderer_vars,
                 rendered, text_box, now>>

\* WorldData::render.  Nothing of what the draws do to the frame is kept:
\* `rendered` lists them.  render_game is todo!().
WorldRender(world, items, positions, checks) ==
  IF world.current_state = "Menu"
  THEN LET current_menu_name == IF world.current_menu = None THEN "main_menu"
                                ELSE world.current_menu[1]
       IN IF current_menu_name = MainMenuName
          THEN IF CurrentMenuIsOk(world)
               THEN RenderMainMenu(items, positions, world.selected, checks, "Ok", 0, "Ok")
               ELSE [result |-> "Err", rendered |-> <<[draw |-> "background"]>>]
          ELSE IF current_menu_name \in {"options template", "pause_menu template"}
          THEN [result |-> "Panic", rendered |-> <<>>]
          ELSE [result |-> "Err", rendered |-> <<>>]
  ELSE [result |-> "Panic", rendered |-> <<>>]

\* A call of WorldData::render
WorldRenderCall ==
  LET done == WorldRender(World, menu_items, menu_item_positions, overflow_checks) IN
  /\ pc = "live"
  /\ result' = done.result
  /\ rendered' = done.rendered
  /\ pc' = IF done.result = "Panic" THEN "panicked" ELSE "live"
  /\ call' = [op |-> "render", old_world |-> World]
  /\ UNCHANGED <<menu_items, selected, menu_item_positions, overflow_checks, next_run,
                 renderer_vars, text_box, world_vars>>

\* WorldData::new, with the main menu as Menu::new lays it out.
InitWorld ==
  /\ pc = "live"
  /\ menu_items = MainMenuItems
  /\ selected = 0
  /\ overflow_checks \in BOOLEAN
  /\ menu_item_positions =
       LayOut(MainMenuItems, MainMenuPosition, MainMenuItemOffset, overflow_checks).positions
  /\ next_run = 0
  /\ pixel_buffer = ClearedBuffer
  /\ old_buffer = ClearedBuffer
  /\ draws = 0
  /\ loaded_fonts = 0
  /\ call = NoCall
  /\ result = "None"
  /\ rendered = <<>>
  /\ text_box = NoTextBox
  /\ now = 0
  /\ timers = <<>>
  /\ current_state = "Menu"
  /\ current_menu = Some(MainMenuName)
  /\ last_move = None

NextWorld ==
  \/ Elapse
  \/ \E player_action \in PlayerActions : UpdateWorldCall(player_action)
  \/ WorldRenderCall

SpecWorld == InitWorld /\ [][NextWorld]_vars

(***************************************************************************)
(* Properties of the renderer                                              *)
(***************************************************************************)
\* The last call was draw_at_pixel_with_rgba.
RgbaCall == call.op = "draw_at_pixel_with_rgba"

\* The 4 bytes of pixel i lie within the frame the call found.
InBounds(i) == (4 * i) + 4 <= Len(old_buffer)

\* The call left byte k of the frame as it was.
SameByte(k) == ByteAt(pixel_buffer, k) = ByteAt(old_buffer, k)

\* The call left every byte but the three colour bytes of pixel i as it was.
OnlyColorOfPixelChanged(i) ==
  /\ Len(pixel_buffer) = Len(old_buffer)
  /\ \A k \in 0..(Len(old_buffer) - 1) : k \notin (4 * i)..((4 * i) + 2) => SameByte(k)

\* C3: draw_at_pixel_with_rgba with alpha 255 at a pixel i within the frame
\* sets bytes 4i, 4i+1, 4i+2 to R, G, B whatever they were and leaves byte
\* 4i+3 and every other pixel unchanged.
C3_FullAlphaReplaces ==
  (RgbaCall /\ call.rgba[4] = 255 /\ InBounds(call.pixel_index)) =>
    /\ result = "Ok"
    /\ \A c \in 0..2 : ByteAt(pixel_buffer, (4 * call.pixel_index) + c) = call.rgba[c + 1]
    /\ OnlyColorOfPixelChanged(call.pixel_index)

\* A full-alpha write over a pixel of another colour whose alpha byte is not 255.
C3_Witness ==
  /\ RgbaCall
  /\ call.rgba[4] = 255
  /\ InBounds(call.pixel_index)
  /\ ByteAt(old_buffer, (4 * call.pixel_index) + 3) # 255
  /\ \A c \in 0..2 : ByteAt(old_buffer, (4 * call.pixel_index) + c) # call.rgba[c + 1]
  /\ pixel_buffer # old_buffer

\* C4: draw_at_pixel_with_rgba with alpha 0 leaves the frame byte for byte as
\* it was, for every frame, index and R, G, B.
C4_ZeroAlphaNoOp == (RgbaCall /\ call.rgba[4] = 0) => pixel_buffer = old_buffer

\* An alpha 0 write of another colour at a pixel within the frame.
C4_Witness ==
  /\ RgbaCall
  /\ call.rgba[4] = 0
  /\ InBounds(call.pixel_index)
  /\ \A c \in 0..2 : ByteAt(old_buffer, (4 * call.pixel_index) + c) # call.rgba[c + 1]

\* C5: for alpha in 1..254 each colour byte stored is
\* ((100 - (alpha*100)/255) * top)/100 + ((100 - (alpha*100)/255) * bottom)/100,
\* a value that fits the byte, and nothing else changes.
C5_BlendFormula ==
  (RgbaCall /\ call.rgba[4] \in 1..254 /\ InBounds(call.pixel_index)) =>
    /\ \A c \in 0..2 :
         LET weight == 100 - ((call.rgba[4] * 100) \div 255)
             top == call.rgba[c + 1]
             bottom == ByteAt(old_buffer, (4 * call.pixel_index) + c)
         IN ByteAt(pixel_buffer, (4 * call.pixel_index) + c)
              = ((weight * top) \div 100) + ((weight * bottom) \div 100)
    /\ OnlyColorOfPixelChanged(call.pixel_index)

\* C6 as claimed: draw_at_pixel_with_rgba at a pixel past the end of the frame
\* returns the error and leaves the frame unchanged, whatever the colour.
C6_Original ==
  (RgbaCall /\ ~InBounds(call.pixel_index)) =>
    /\ result = "Err"
    /\ pixel_buffer = old_buffer

\* C6 amended: at a pixel past the end of the frame the frame is unchanged, and
\* the call returns the error when alpha is not 0 and Ok when alpha is 0.
C6_Amended ==
  (RgbaCall /\ ~InBounds(call.pixel_index)) =>
    /\ pixel_buffer = old_buffer
    /\ call.rgba[4] # 0 => result = "Err"
    /\ call.rgba[4] = 0 => result = "Ok"

\* A visible colour was refused at a pixel past the end of the frame.
C6_Witness ==
  /\ RgbaCall
  /\ ~InBounds(call.pixel_index)
  /\ call.rgba[4] # 0
  /\ result = "Err"

\* The last call was draw_rectangle.
RectangleCall == call.op = "draw_rectangle"

\* The linear index of the pixel in row position.y + row and column
\* position.x + col of a frame as wide as the buffer.
CellPixel(row, col) ==
  ((call.position.y + row) * BufferWidth) + call.position.x + col

\* The pixel draw_rectangle visits j-th, row by row.
VisitedPixel(j) == CellPixel(j \div call.dimensions.width, j % call.dimensions.width)

\* The cells of the rectangle, in the order of the visit.
Cells == 0..((call.dimensions.width * call.dimensions.height) - 1)

\* The 4 bytes of the j-th cell's pixel do not lie within the frame.
Refused(j) == (4 * VisitedPixel(j)) + 4 > Len(old_buffer)

\* The pixels of the cells visited before the first refused one.
VisitedBeforeRefusal ==
  { VisitedPixel(j) : j \in { m \in Cells : \A n \in 0..m : ~Refused(n) } }

\* The call left the 4 bytes of pixel p as they were.
SamePixel(p) == \A c \in 0..3 : SameByte((4 * p) + c)

\* C7 as claimed: a draw_rectangle that returns the error leaves the frame
\* unchanged.
C7_Original == (RectangleCall /\ result = "Err") => pixel_buffer = old_buffer

\* C7 amended: a draw_rectangle that returns the error has a refused cell; it
\* leaves unchanged every pixel but those of the cells visited before the
\* first refused one, and those stay written: at alpha 255 they hold the colour.
C7_Amended ==
  (RectangleCall /\ result = "Err") =>
    /\ \E j \in Cells : Refused(j)
    /\ Len(pixel_buffer) = Len(old_buffer)
    /\ \A p \in 0..(PixelCount - 1) :
         /\ SameByte((4 * p) + 3)
         /\ p \notin VisitedBeforeRefusal => SamePixel(p)
         /\ (p \in VisitedBeforeRefusal /\ call.color[4] = 255) =>
              \A c \in 0..2 : ByteAt(pixel_buffer, (4 * p) + c) = call.color[c + 1]

\* A draw_rectangle returned the error after it wrote some cell.
C7_Witness ==
  /\ RectangleCall
  /\ result = "Err"
  /\ VisitedBeforeRefusal # {}
  /\ pixel_buffer # old_buffer

\* C8: a draw_rectangle of a rectangle with cells that reaches past the right
\* or the bottom edge of the buffer returns the error, and the only pixels a
\* draw_rectangle changes are those in row position.y + row and column
\* position.x + col of the buffer, for the cells (row, col) of the rectangle.
C8_OffBufferRefused ==
  (RectangleCall /\ call.dimensions.width >= 1 /\ call.dimensions.height >= 1) =>
    /\ (\/ call.position.x + call.dimensions.width > BufferWidth
        \/ call.position.y + call.dimensions.height > BufferHeight) => result = "Err"
    /\ \A p \in 0..(PixelCount - 1) :
         ~SamePixel(p) =>
           \E row \in 0..(call.dimensions.height - 1), col \in 0..(call.dimensions.width - 1) :
             /\ call.position.x + col < BufferWidth
             /\ call.position.y + row < BufferHeight
             /\ p = CellPixel(row, col)

\* The last call was draw_at_pixel_with_rgb.
RgbCall == call.op = "draw_at_pixel_with_rgb"

\* C13: draw_at_pixel_with_rgb at a pixel i within the frame sets bytes 4i,
\* 4i+1, 4i+2 to R, G, B and leaves byte 4i+3 and every other pixel as it was;
\* at a pixel past the end of the frame it returns the error and leaves the
\* frame unchanged.
C13_OpaqueWrite ==
  RgbCall =>
    /\ InBounds(call.pixel_index) =>
         /\ result = "Ok"
         /\ \A c \in 0..2 : ByteAt(pixel_buffer, (4 * call.pixel_index) + c) = call.rgb[c + 1]
         /\ OnlyColorOfPixelChanged(call.pixel_index)
    /\ ~InBounds(call.pixel_index) =>
         /\ result = "Err"
         /\ pixel_buffer = old_buffer

\* draw_at_pixel_with_rgb wrote another colour over a pixel whose alpha byte
\* is not 255.
C13_Witness ==
  /\ RgbCall
  /\ InBounds(call.pixel_index)
  /\ ByteAt(old_buffer, (4 * call.pixel_index) + 3) # 255
  /\ \A c \in 0..2 : ByteAt(old_buffer, (4 * call.pixel_index) + c) # call.rgb[c + 1]
  /\ pixel_buffer # old_buffer

\* The last call was render_image.
ImageCall == call.op = "render_image"

\* The linear index target.y*W + target.x + x + y*W of the pixel (x, y) of the
\* image, W the width of the buffer.
BlitIndex(x, y) ==
  (call.offset.y * BufferWidth) + call.offset.x + x + (y * BufferWidth)

\* The frame and the result when the pixels of the image are written through
\* draw_at_pixel_with_rgba row by row from (x, y) on, each at BlitIndex, up
\* to the first one that is refused.
RECURSIVE BlitFrom(_, _, _)
BlitFrom(buffer, x, y) ==
  IF y >= call.image.height THEN [buffer |-> buffer, result |-> "Ok"]
  ELSE IF x >= call.image.width THEN BlitFrom(buffer, 0, y + 1)
  ELSE
    LET written == DrawAtPixelWithRgba(
                     buffer, BlitIndex(x, y), call.image.pixels[(y * call.image.width) + x + 1])
    IN IF written.result = "Err" THEN [buffer |-> buffer, result |-> "Err"]
       ELSE BlitFrom(written.buffer, x + 1, y)

\* C16: render_image of an image that is not RGBA returns the error and writes
\* nothing; otherwise it writes the pixels (x, y) of the image in row-major
\* order, each through draw_at_pixel_with_rgba at index
\* target.y*W + target.x + x + y*W, and returns the error at the first pixel
\* whose write is refused, the earlier pixels staying written.
C16_Blit ==
  ImageCall =>
    IF ~call.image.rgba8
    THEN result = "Err" /\ pixel_buffer = old_buffer
    ELSE /\ result = BlitFrom(old_buffer, 0, 0).result
         /\ pixel_buffer = BlitFrom(old_buffer, 0, 0).buffer

\* render_image returned Ok for an image of several rows and columns that
\* changed the frame.
C16_Witness ==
  /\ ImageCall
  /\ call.image.rgba8
  /\ call.image.width >= 2
  /\ call.image.height >= 2
  /\ result = "Ok"
  /\ pixel_buffer # old_buffer

\* The weight of the top colour at an alpha: the byte draw_at_pixel_with_rgba
\* stores when white is drawn with that alpha over a black pixel.
TopWeight(alpha) ==
  ByteAt(DrawAtPixelWithRgba(<<0, 0, 0, 255>>, 0, <<255, 255, 255, alpha>>).buffer, 0)

\* C20: alpha is opacity: the weight of the top colour at the alpha of a call
\* is at least its weight at every lower alpha from 1 on.
C20_AlphaIsOpacity ==
  (RgbaCall /\ call.rgba[4] >= 1) =>
    \A lower \in 1..(call.rgba[4] - 1) : TopWeight(lower) <= TopWeight(call.rgba[4])

\* C21: after set_color(rgb) every pixel of the frame holds the bytes
\* [rgb[0], rgb[1], rgb[2], 255], the layout draw_at_pixel_with_rgb writes.
C21_SetColorLayout ==
  call.op = "set_color" =>
    \A pixel_index \in 0..(PixelCount - 1) :
      /\ \A n \in 0..2 :
           ByteAt(pixel_buffer, (pixel_index * 4) + n) =
             ByteAt(DrawAtPixelWithRgb(old_buffer, pixel_index, call.rgb).buffer,
                    (pixel_index * 4) + n)
      /\ \A n \in 0..2 : ByteAt(pixel_buffer, (pixel_index * 4) + n) = call.rgb[n + 1]
      /\ ByteAt(pixel_buffer, (pixel_index * 4) + 3) = 255

\* The last call was draw_line.
LineCall == call.op = "draw_line"

\* An endpoint of the line has a zero x or y.
ZeroCoordinate ==
  0 \in {call.point_a.x, call.point_a.y, call.point_b.x, call.point_b.y}

\* C18: draw_line with an endpoint that has a zero x or y returns the error
\* and leaves the frame unchanged.
C18_ZeroCoordinateRefused ==
  (LineCall /\ ZeroCoordinate) => (result = "Err" /\ pixel_buffer = old_buffer)

\* A line from the origin column to a cell within the frame, in a visible
\* colour, was refused.
C18_Witness ==
  /\ LineCall
  /\ call.point_a.x = 0
  /\ call.point_a.y >= 1
  /\ call.point_b.x >= 1
  /\ call.point_b.y >= 1
  /\ call.color[4] # 0
  /\ result = "Err"

\* The last call was update_font_index.
FontIndexCall == call.op = "update_font_index"

\* C23: update_font_index(n) returns an error when n is not the index of a
\* font or the text box is empty; when it returns Ok the font index of the
\* text box is n, and its text, its size and its position are as before.
C23_FontIndexUpdated ==
  FontIndexCall =>
    /\ (call.new_font_index >= call.font_count \/ Text(call.old_text_box) = <<>>)
         => result = "Err"
    /\ result = "Ok" =>
         /\ FontIndex(text_box) = Some(call.new_font_index)
         /\ Text(text_box) = Text(call.old_text_box)
         /\ Px(text_box) = Px(call.old_text_box)
         /\ text_box.settings = call.old_text_box.settings
         /\ FontsPosition(text_box) = FontsPosition(call.old_text_box)

(***************************************************************************)
(* Properties of the timer                                                 *)
(***************************************************************************)
\* The last call was a call of the timer.
TimerCall == call.op \in {"start", "restart", "is_finished", "running"}

ItemCount == Len(menu_items)

\* The asset name is neither an image nor a text box.
Unresolvable(asset_name) == asset_name \notin (ImageNames \cup TextBoxNames)

\* The items of the menu whose asset cannot be resolved.
UnresolvableItems == { i \in 1..ItemCount : Unresolvable(menu_items[i].asset_name) }

\* The last call was calculate_item_positions, from Menu::new or directly.
LaidOut == call.op = "calculate_item_positions"

\* C1: in a menu with at least one item the cursor is an index of an item; it
\* is 0 when Menu::new has laid the menu out, and calculate_item_positions
\* leaves it as it was.
C1_CursorInRange ==
  /\ ItemCount >= 1 => selected \in 0..(ItemCount - 1)
  /\ pc = "in_new" => selected = 0
  /\ LaidOut => selected = call.old_selected

\* next() has just wrapped from the last of several items to the first.
C1_Witness ==
  /\ call.op = "next"
  /\ ItemCount >= 2
  /\ call.old_selected = ItemCount - 1
  /\ selected = 0

\* C2: with n >= 1 items, n calls of next() from cursor 0 bring the cursor back
\* to 0, next() at n - 1 goes to 0 and previous() at 0 goes to n - 1; with no
\* items next() and previous() leave the cursor where it was.
C2_Wraparound ==
  /\ (ItemCount >= 1 /\ next_run = ItemCount) => selected = 0
  /\ (call.op = "next" /\ ItemCount >= 1 /\ call.old_selected = ItemCount - 1)
       => selected = 0
  /\ (call.op = "previous" /\ ItemCount >= 1 /\ call.old_selected = 0)
       => selected = ItemCount - 1
  /\ (call.op \in {"next", "previous"} /\ ItemCount = 0)
       => selected = call.old_selected

\* next() has gone once around a menu of several items.
C2_Witness == next_run = ItemCount /\ ItemCount >= 2 /\ selected = 0

\* C9 as claimed: when calculate_item_positions has returned, with Ok or with
\* Err, there is one position per item, and it has returned Err exactly when
\* some item's asset is neither an image nor a text box.
C9_Original ==
  (LaidOut /\ result \in {"Ok", "Err"}) =>
    /\ Len(menu_item_positions) = ItemCount
    /\ result = "Err" <=> UnresolvableItems # {}

\* C9 amended: after Ok there is one position per item; after Err there are
\* only the positions of the items before the first unresolvable one, fewer
\* than the items; Err is returned only when some asset is unresolvable and Ok
\* never is.
C9_Amended ==
  LaidOut =>
    /\ result = "Ok" =>
         /\ Len(menu_item_positions) = ItemCount
         /\ UnresolvableItems = {}
    /\ result = "Err" =>
         /\ UnresolvableItems # {}
         /\ \A i \in UnresolvableItems : Len(menu_item_positions) < i
         /\ Len(menu_item_positions) + 1 \in UnresolvableItems

\* calculate_item_positions has returned Err after it placed some items.
C9_Witness ==
  /\ LaidOut
  /\ result = "Err"
  /\ Len(menu_item_positions) >= 1
  /\ Len(menu_item_positions) < ItemCount

\* The height calculate_item_positions adds to the running offset for an item.
AssetHeight(asset_name) ==
  IF asset_name \in ImageNames THEN ImageDimensions(asset_name).height
  ELSE TextBoxDimensions(asset_name).height

\* The sum over the items j < i of (height_j + g).
RECURSIVE OffsetBefore(_, _)
OffsetBefore(i, g) ==
  IF i <= 1 THEN 0
  ELSE OffsetBefore(i - 1, g) + AssetHeight(menu_items[i - 1].asset_name) + g

\* C10: calculate_item_positions with anchor (ax, ay) and item_offset g places
\* an image-backed item i of width w at x = ax - w / 2 and at y = ay + the sum
\* over the earlier items j of (height_j + g).
C10_ImagePositions ==
  LaidOut =>
    \A i \in 1..Len(menu_item_positions) :
      menu_items[i].asset_name \in ImageNames =>
        LET w == ImageDimensions(menu_items[i].asset_name).width
            intended == call.starting_position.x - (w \div 2)
        IN /\ intended >= 0
           /\ menu_item_positions[i].x = intended
           /\ menu_item_positions[i].y =
                call.starting_position.y + OffsetBefore(i, call.item_offset)

\* C26: the subtractions of the layout and of the selection indicator stay in
\* u32: calculate_item_positions does not panic and every x it stores, anchor.x
\* - width / 2, is non-negative; render_main_menu does not panic and the tip of
\* every arrow it draws, item.x - 10, has a non-negative x.
C26_NoUnderflow ==
  /\ call.op = "calculate_item_positions" =>
       /\ result # "Panic"
       /\ \A i \in 1..Len(menu_item_positions) : menu_item_positions[i].x >= 0
  /\ call.op = "render_main_menu" =>
       /\ (selected < Len(menu_item_positions) /\ selected < Len(menu_items))
            => result # "Panic"
       /\ \A k \in 1..Len(rendered) :
            rendered[k].draw = "arrow" => rendered[k].end_position.x >= 0

\* C29: in a menu with items, previous() right after next() and next() right
\* after previous() put the cursor back where it was before the pair, and
\* neither call changes the items or their positions.
C29_NextPreviousInverse ==
  /\ (ItemCount >= 1 /\ call.op = "previous" /\ call.before.op = "next")
       => selected = call.before.old_selected
  /\ (ItemCount >= 1 /\ call.op = "next" /\ call.before.op = "previous")
       => selected = call.before.old_selected
  /\ call.op \in {"next", "previous"} =>
       /\ menu_items = call.old_menu_items
       /\ menu_item_positions = call.old_menu_item_positions

\* In a menu of two or more items the cursor was on the last item, next()
\* wrapped it to the first and previous() has wrapped it back.
C29_Witness ==
  /\ ItemCount >= 2
  /\ call.op = "previous"
  /\ call.before.op = "next"
  /\ call.before.old_selected = ItemCount - 1
  /\ call.old_selected = 0
  /\ selected = ItemCount - 1

\* The position the text box was created with (TextBox::new's `position`).
CreatedPosition(asset_name) == [x |-> 0, y |-> 50]

\* C11: calculate_item_positions records for a text-backed item the position
\* the text box was created with, whatever the anchor and the running offset,
\* and an image-backed item that follows a text-backed one has y = anchor.y +
\* the sum over the earlier items, the text boxes included, of (height + g).
C11_TextBoxPositions ==
  LaidOut =>
    \A i \in 1..Len(menu_item_positions) :
      /\ menu_items[i].asset_name \in TextBoxNames =>
           menu_item_positions[i] = CreatedPosition(menu_items[i].asset_name)
      /\ (i >= 2 /\ menu_items[i - 1].asset_name \in TextBoxNames
                 /\ menu_items[i].asset_name \in ImageNames) =>
           menu_item_positions[i].y =
             call.starting_position.y + OffsetBefore(i, call.item_offset)

\* A text box was laid out after an image that moved the running offset, with
\* an anchor that is not the text box's position, and an image follows it.
C11_Witness ==
  /\ LaidOut
  /\ result = "Ok"
  /\ Len(menu_item_positions) = 3
  /\ menu_items[1].asset_name \in ImageNames
  /\ menu_items[2].asset_name \in TextBoxNames
  /\ menu_items[3].asset_name \in ImageNames
  /\ call.starting_position # CreatedPosition(menu_items[2].asset_name)
  /\ menu_item_positions[2] = CreatedPosition(menu_items[2].asset_name)
  /\ menu_item_positions[3].y > call.starting_position.y + call.item_offset
        + ImageDimensions(menu_items[1].asset_name).height
        + ImageDimensions(menu_items[3].asset_name).height

\* C12: Menu::render on a menu with at least one item whose number of
\* positions is not its number of items, none at all included, returns the
\* error and draws nothing; and every item Menu::render draws is drawn at the
\* position stored for its index.
C12_RenderRefusesMismatch ==
  call.op = "render" =>
    /\ (ItemCount >= 1 /\ Len(menu_item_positions) # ItemCount) =>
         (result = "Err" /\ rendered = <<>>)
    /\ \A k \in 1..Len(rendered) :
         /\ rendered[k].index \in 1..Len(menu_item_positions)
         /\ rendered[k].index \in 1..ItemCount
         /\ rendered[k].position = menu_item_positions[rendered[k].index]
         /\ rendered[k].asset_name = menu_items[rendered[k].index].asset_name

\* Menu::render refused a menu of resolvable items that has some positions,
\* but fewer than items.
C12_Witness ==
  /\ call.op = "render"
  /\ ItemCount >= 2
  /\ UnresolvableItems = {}
  /\ Len(menu_item_positions) >= 1
  /\ Len(menu_item_positions) < ItemCount
  /\ result = "Err"

\* C14: Menu::current_option returns None exactly when the menu has no items;
\* otherwise it returns the item at the cursor when the cursor is below the
\* number of items and the first item when it is not; it never fails.
C14_CurrentOption ==
  call.op = "current_option" =>
    /\ result = "Ok"
    /\ call.returned = <<>> <=> ItemCount = 0
    /\ (ItemCount >= 1 /\ selected < ItemCount) => call.returned = <<menu_items[selected + 1]>>
    /\ (ItemCount >= 1 /\ selected >= ItemCount) => call.returned = <<menu_items[1]>>

\* Menu::current_option fell back to the first item of several for a cursor
\* past the last item.
C14_Witness ==
  /\ call.op = "current_option"
  /\ ItemCount >= 2
  /\ selected >= ItemCount
  /\ menu_items[1] # menu_items[ItemCount]
  /\ call.returned = <<menu_items[1]>>

\* C15: render_main_menu returns an error when the current menu has no items
\* and when the asset of the selected item is unresolvable, and when it
\* returns Ok the selection indicator is the last thing it drew.
C15_IndicatorOrError ==
  call.op = "render_main_menu" =>
    /\ ItemCount = 0 => result = "Err"
    /\ (selected < ItemCount /\ Unresolvable(menu_items[selected + 1].asset_name)) =>
         result = "Err"
    /\ result = "Ok" =>
         /\ rendered # <<>>
         /\ rendered[Len(rendered)].draw = "arrow"

\* render_main_menu drew the background, found a menu without items and
\* returned the error from the selection indicator.
C15_Witness ==
  /\ call.op = "render_main_menu"
  /\ ItemCount = 0
  /\ rendered = <<[draw |-> "background"]>>
  /\ result = "Err"

(***************************************************************************)
(* Properties of the world                                                 *)
(***************************************************************************)
\* The last call was update_world.
UpdateCall == call.op = "update_world"

\* update_world was called in Menu state with a MenuAction, so update_menu went
\* on to look at the current menu.
MenuActionInMenuState ==
  /\ UpdateCall
  /\ call.old_world.current_state = "Menu"
  /\ call.player_action \in MenuActions

\* The call found the main menu as the current menu.
InMainMenu == call.old_world.current_menu = Some(MainMenuName)

\* C25: update_menu with a menu action, in a world whose current menu is named
\* and is not the main menu, puts the main menu back as the current menu and
\* returns Ok(false).
C25_UnknownMenuRecovery ==
  (MenuActionInMenuState /\ call.old_world.current_menu # None /\ ~InMainMenu) =>
    /\ result = "Ok"
    /\ ~call.returned
    /\ current_menu = Some(MainMenuName)

\* The call was an Up or a Down in the main menu.
MovementCall == MenuActionInMenuState /\ InMainMenu /\ call.player_action \in {"Up", "Down"}

\* The "menu_movement" timer as the call found it was not there, was not
\* running, or had run for 200 ms or more.
TimerReady ==
  \/ TimerName \notin DOMAIN call.old_world.timers
  \/ ~TimerRunning(call.old_world.timers[TimerName])
  \/ call.instant - call.old_world.timers[TimerName].timer[1] >= 200

\* C27: an Up or Down in the main menu moves the cursor one step, to the
\* previous item for Up and the next for Down, and starts the timer of 200 ms
\* at the instant of the call if the timer is not running or has finished, and
\* only then: otherwise the cursor and the timer stay as they are.  The first
\* Up or Down moves the cursor, and a move comes 200 ms or more after the move
\* before it.
C27_MovementDebounce ==
  /\ MovementCall =>
       /\ result = "Ok" /\ ~call.returned
       /\ TimerName \in DOMAIN timers
       /\ timers[TimerName].duration = 200
       /\ IF TimerReady
          THEN /\ selected = IF call.player_action = "Up"
                             THEN (call.old_world.selected + (ItemCount - 1)) % ItemCount
                             ELSE (call.old_world.selected + 1) % ItemCount
               /\ timers[TimerName].timer = Some(call.instant)
          ELSE /\ selected = call.old_world.selected
               /\ timers = call.old_world.timers
       /\ call.old_last_move = None => selected # call.old_world.selected
  /\ (UpdateCall /\ selected # call.old_world.selected) =>
       /\ MovementCall
       /\ last_move = Some(call.instant)
       /\ call.old_last_move # None => call.instant - call.old_last_move[1] >= 200

\* A Down arrived 100 ms after a move and was passed over.
C27_Witness ==
  /\ MovementCall
  /\ call.player_action = "Down"
  /\ call.old_last_move = Some(call.instant - 100)
  /\ selected = call.old_world.selected
  /\ TimerRunning(timers[TimerName])

\* C28: after an update_world that returned Ok, the current menu is named and
\* is one of the menus of the map.
C28_CurrentMenuExists ==
  (UpdateCall /\ result = "Ok") => CurrentMenuIsOk(World)

\* The item the cursor was on when the call began.
OldOption == menu_items[call.old_world.selected + 1].item_name

\* C30: update_world returns Ok(true) only for Select on the Exit item of the
\* main menu in Menu state; Select on Start there puts the world in Game state;
\* with no action or an action that is not a MenuAction, in Menu state, it
\* returns Ok(false) and leaves the cursor, the current menu and the world
\* state as they were.
C30_CloseRequest ==
  UpdateCall =>
    /\ (result = "Ok" /\ call.returned) =>
         /\ MenuActionInMenuState
         /\ InMainMenu
         /\ call.player_action = "Select"
         /\ OldOption = "exit"
    /\ (MenuActionInMenuState /\ InMainMenu /\ call.player_action = "Select"
          /\ OldOption = "start") =>
         /\ result = "Ok" /\ ~call.returned
         /\ current_state = "Game"
    /\ (call.old_world.current_state = "Menu" /\ call.player_action \notin MenuActions) =>
         /\ result = "Ok" /\ ~call.returned
         /\ selected = call.old_world.selected
         /\ current_menu = call.old_world.current_menu
         /\ current_state = call.old_world.current_state

\* Select on Exit, reached by moving the cursor, has returned Ok(true).
C30_Witness ==
  /\ UpdateCall
  /\ result = "Ok"
  /\ call.returned
  /\ call.old_world.selected = 2
  /\ call.old_last_move # None

(***************************************************************************)
(* Properties of the text box                                              *)
(***************************************************************************)
\* The last call made a text box or gave it a text, and returned or panicked.
Measured == call.op \in {"text_box_new", "update_text"} /\ result # "Err"

GlyphCount == Len(text_box.glyphs)

\* The largest height among the glyphs of the text box.
TallestGlyph ==
  CHOOSE h \in {0} \cup { text_box.glyphs[k].height : k \in 1..GlyphCount } :
    \A k \in 1..GlyphCount : text_box.glyphs[k].height <= h

\* C17: the dimensions calculate_dimensions gives a text box are zero by zero
\* for no glyphs; otherwise the width is (x + width of the last glyph) -
\* anchor.x, a subtraction that does not go below zero, and the height is the
\* largest glyph height.
C17_BoundingBox ==
  Measured =>
    /\ result = "Ok"
    /\ GlyphCount = 0 => text_box.dimensions = [width |-> 0, height |-> 0]
    /\ GlyphCount >= 1 =>
         LET last == text_box.glyphs[GlyphCount]
             width == (last.x + last.width) - call.position.x
         IN /\ width >= 0
            /\ text_box.dimensions = [width |-> width, height |-> TallestGlyph]

\* C24: after update_text(text, size, position) has returned, the anchor of
\* the text box is the position it was given, whatever the anchor was before,
\* and the dimensions are those of the new glyphs measured from that anchor.
C24_AnchorFollowsPosition ==
  (call.op = "update_text" /\ result = "Ok") =>
    /\ text_box.settings = call.position
    /\ Text(text_box) = call.text
    /\ text_box.dimensions =
         [width |-> IF GlyphCount = 0 THEN 0
                    ELSE (text_box.glyphs[GlyphCount].x + text_box.glyphs[GlyphCount].width)
                           - text_box.settings.x,
          height |-> TallestGlyph]

\* The last call was the render of the text box.
TextRenderCall == call.op = "text_box_render"

\* The coverages whose percentage (coverage * 100) / 255 is 0.
BelowOnePercent == { coverage \in 0..255 : (coverage * 100) \div 255 = 0 }

\* min(255, (channel * p) / 100) for the three channels, and the alpha asked for
CellColor(coverage) ==
  LET p == (coverage * 100) \div 255
      channel(n) == IF (call.color[n] * p) \div 100 > 255 THEN 255
                    ELSE (call.color[n] * p) \div 100
  IN <<channel(1), channel(2), channel(3), call.color[4]>>

\* The linear index of the cell of the glyph k: the glyph is placed from the
\* bottom edge of the text box upward.
CellIndex(k, cell) ==
  LET glyph == text_box.glyphs[k]
      metrics == GlyphMetrics(glyph.parent)
      bottom == text_box.settings.y + text_box.dimensions.height
      row == IF bottom - (metrics.ymin + metrics.height) < 0 THEN 0
             ELSE bottom - (metrics.ymin + metrics.height)
  IN (row * BufferWidth) + glyph.x
       + (cell % glyph.width) + ((cell \div glyph.width) * BufferWidth)

\* The frame and the result when the glyphs are rendered from the cell `cell`
\* (0-based) of the glyph k on, passing over the cells whose coverage is in
\* `skipped` and writing the others through draw_at_pixel_with_rgba; a glyph
\* that is not ASCII and a refused write end it with the error.
RECURSIVE TextFrom(_, _, _, _)
TextFrom(buffer, k, cell, skipped) ==
  IF k > GlyphCount THEN [buffer |-> buffer, result |-> "Ok"]
  ELSE IF ~IsAscii(text_box.glyphs[k].parent) THEN [buffer |-> buffer, result |-> "Err"]
  ELSE IF cell >= text_box.glyphs[k].width * text_box.glyphs[k].height
       THEN TextFrom(buffer, k + 1, 0, skipped)
  ELSE
    LET coverage == GlyphMetrics(text_box.glyphs[k].parent).bitmap[cell + 1] IN
    IF coverage \in skipped THEN TextFrom(buffer, k, cell + 1, skipped)
    ELSE LET written == DrawAtPixelWithRgba(buffer, CellIndex(k, cell), CellColor(coverage))
         IN IF written.result = "Err" THEN [buffer |-> buffer, result |-> "Err"]
            ELSE TextFrom(written.buffer, k, cell + 1, skipped)

\* C19 as claimed: the render passes over exactly the cells of coverage 0 and
\* writes every cell of coverage 1 or more with the channels min(255,
\* (channel * p) / 100), p = (coverage * 100) / 255, and the alpha asked for;
\* a glyph that is not ASCII makes it return the error.
C19_Original ==
  TextRenderCall =>
    /\ result = TextFrom(old_buffer, 1, 0, {0}).result
    /\ pixel_buffer = TextFrom(old_buffer, 1, 0, {0}).buffer

\* C19 amended: the render passes over exactly the cells whose percentage
\* p = (coverage * 100) / 255 is 0, those of coverage 0, 1 and 2, and writes
\* every cell with p >= 1 as claimed; a glyph that is not ASCII makes it
\* return the error.
C19_Amended ==
  TextRenderCall =>
    /\ result = TextFrom(old_buffer, 1, 0, BelowOnePercent).result
    /\ pixel_buffer = TextFrom(old_buffer, 1, 0, BelowOnePercent).buffer
    /\ (\E k \in 1..GlyphCount : ~IsAscii(text_box.glyphs[k].parent)) => result = "Err"

\* A text with a glyph that has cells of coverage 0, 2, 3 and 128 was rendered
\* in a visible colour and changed the frame.
C19_Witness ==
  /\ TextRenderCall
  /\ result = "Ok"
  /\ \E k \in 1..GlyphCount :
       {0, 2, 3, 128} \subseteq
         { GlyphMetrics(text_box.glyphs[k].parent).bitmap[n] :
             n \in 1..Len(GlyphMetrics(text_box.glyphs[k].parent).bitmap) }
  /\ call.color[4] # 0
  /\ pixel_buffer # old_buffer

====
